---- MODULE Spec2Model ----
(***************************************************************************)
(* A model of the gochess rules engine (package internal): the square and  *)
(* piece encoding, the FEN codec (fen.go) and move application (board.go). *)
(* Text is modelled as a sequence of one-character strings so that parsing *)
(* and serialising are computed character by character, as the code does.  *)
(***************************************************************************)
EXTENDS Integers, Sequences, FiniteSets, TLC

VARIABLES
    fen,      \* SpecFen: the text handed to ParseFen
    fenPc,    \* SpecFen: "input", "parsed" or "serialized"
    parsed,   \* SpecFen: what ParseFen returned, [board, err]
    out,      \* SpecFen: what Board.Fen() returned for parsed.board
    b,        \* Spec: the current Board
    prev,     \* Spec: the Board the last MakeMove was called on
    last,     \* Spec: the Move of the last MakeMove call
    plies,    \* Spec: the number of MakeMove calls so far
    status,   \* Spec: what IsCheckOrMate returned for the current Board
    start,    \* Spec: the Board the game started from
    shared,   \* SpecWorkers: the Board both workers call MakeMove on
    wpc,      \* SpecWorkers: each worker's position inside MakeMove
    wmove,    \* SpecWorkers: each worker's move argument
    frame,    \* SpecWorkers: each worker's receiver b inside MakeMove
    wep,      \* SpecWorkers: each worker's local epSquare
    result,   \* SpecWorkers: the Board each worker's call returned
    mat,          \* SpecMaterial: the Board HasInsufficientMaterial is called on
    matPc,        \* SpecMaterial: "ready" or "done"
    insufficient, \* SpecMaterial: what HasInsufficientMaterial returned
    depth,    \* SpecPerft: the depth of the perft run
    stack,    \* SpecPerft: the calls of perftWithStats in progress, innermost last
    stats,    \* SpecPerft: the PerftStats of the run
    perftPc,  \* SpecPerft: "run" or "done"
    coord,    \* SpecSquare: a file and a rank, and what is computed from them
    glyph,    \* SpecPiece: a character, and what is computed from it
    model,    \* SpecTui: the Bubble Tea model of the terminal program
    ticks,    \* SpecTui: the randomMoveMsg ticks scheduled and not yet delivered
    handled   \* SpecTui: history, the randomMoveMsg handled so far and whether the program has quit

vars == <<fen, fenPc, parsed, out, b, prev, last, plies, status, start,
          shared, wpc, wmove, frame, wep, result,
          mat, matPc, insufficient, depth, stack, stats, perftPc, coord,
          glyph, model, ticks, handled>>

-----------------------------------------------------------------------------
(* Integer helpers with Go's semantics.                                    *)

\* Go's integer division truncates toward zero.
GoDiv(a, n) == IF a >= 0 THEN a \div n ELSE -((-a) \div n)

\* Go's remainder has the sign of the dividend.
GoMod(a, n) == a - n * GoDiv(a, n)

-----------------------------------------------------------------------------
(* Piece and square encoding, board.go                                     *)

White == 0
Black == 1

NoPiece == 0
Pawn == 2
Knight == 4
Bishop == 6
Rook == 8
Queen == 10
King == 12

WP == White + Pawn
WN == White + Knight
WB == White + Bishop
WR == White + Rook
WQ == White + Queen
WK == White + King
BP == Black + Pawn
BN == Black + Knight
BB == Black + Bishop
BR == Black + Rook
BQ == Black + Queen
BK == Black + King

\* Piece.Color: int(p) & 0x01
Color(p) == p % 2

\* Piece.Type: int(p) &^ 0x01
Type(p) == p - (p % 2)

\* PieceRunes, indexed from 0 in the code and from 1 here
PieceRunes == <<".", ",", "P", "p", "N", "n", "B", "b", "R", "r", "Q", "q", "K", "k">>

\* pieceFromChar searching PieceRunes from its first entry: the filler
\* rune ',' is then found at index 1
pieceFromCharFromZero(c) ==
    LET hits == {i \in 0..(Len(PieceRunes) - 1) : PieceRunes[i + 1] = c}
    IN  IF hits = {} THEN NoPiece
        ELSE CHOOSE i \in hits : \A j \in hits : i <= j

\* pieceFromChar: the first index i >= WP with PieceRunes[i] == c, else NoPiece
pieceFromChar(c) ==
    LET hits == {i \in WP..(Len(PieceRunes) - 1) : PieceRunes[i + 1] = c}
    IN  IF hits = {} THEN NoPiece
        ELSE CHOOSE i \in hits : \A j \in hits : i <= j

NoSquare == -1

FileA == 0
FileH == 7
Rank1 == 0
Rank8 == 7

A1 == 0
H1 == 7
A8 == 56
H8 == 63

Squares == 0..63

\* Square testing its coordinates against FileH and Rank8 only
SquareUpperOnly(file, rank) ==
    IF file > FileH \/ rank > Rank8
    THEN NoSquare
    ELSE rank * 8 + file

\* Square(file, rank)
Square(file, rank) ==
    IF file < FileA \/ file > FileH \/ rank < Rank1 \/ rank > Rank8
    THEN NoSquare
    ELSE rank * 8 + file

\* Sq.File
File(sq) == GoMod(sq, 8)

\* Sq.Rank
Rank(sq) == GoDiv(sq, 8)

\* Sq.RelativeRank
RelativeRank(sq, color) == IF color = White THEN Rank(sq) ELSE 7 - Rank(sq)

FileChars == <<"a", "b", "c", "d", "e", "f", "g", "h">>
RankChars == <<"1", "2", "3", "4", "5", "6", "7", "8">>

\* Sq.String: "-" for NoSquare, else squareNames[sq]
SqString(sq) ==
    IF sq = NoSquare THEN <<"-">>
    ELSE <<FileChars[File(sq) + 1], RankChars[Rank(sq) + 1]>>

\* the position of character c in table t, 0 when absent
IndexOf(t, c) ==
    IF \E i \in 1..Len(t) : t[i] = c
    THEN CHOOSE i \in 1..Len(t) : t[i] = c
    ELSE 0

\* squareFromString handing the rank to Square as the file and the file as
\* the rank
squareFromStringSwapped(s) ==
    IF Len(s) /= 2 THEN NoSquare
    ELSE IF IndexOf(FileChars, s[1]) = 0 \/ IndexOf(RankChars, s[2]) = 0 THEN NoSquare
    ELSE Square(IndexOf(RankChars, s[2]) - 1, IndexOf(FileChars, s[1]) - 1)

\* squareFromString
squareFromString(s) ==
    IF Len(s) /= 2 THEN NoSquare
    ELSE IF IndexOf(FileChars, s[1]) = 0 \/ IndexOf(RankChars, s[2]) = 0 THEN NoSquare
    ELSE Square(IndexOf(FileChars, s[1]) - 1, IndexOf(RankChars, s[2]) - 1)

queenSide == 0
kingSide == 2
WhiteOO == White + kingSide
BlackOO == Black + kingSide
WhiteOOO == White + queenSide
BlackOOO == Black + queenSide

\* the zero value of Board, as &Board{} builds it
ZeroBoard ==
    [Piece |-> [sq \in Squares |-> NoPiece],
     SideToMove |-> White,
     MoveNr |-> 0,
     Rule50 |-> 0,
     EpSquare |-> A1,
     CastleSq |-> [i \in 0..3 |-> A1],
     checkFrom |-> A1,
     checkTo |-> A1]

\* the nil *Board
NilBoard == [nil |-> TRUE]

-----------------------------------------------------------------------------
(* Text helpers: strings.Fields, strings.Split, strconv.Atoi, strconv.Itoa *)

DigitChars == <<"0", "1", "2", "3", "4", "5", "6", "7", "8", "9">>

IsDigit(c) == IndexOf(DigitChars, c) /= 0

DigitVal(c) == IndexOf(DigitChars, c) - 1

\* unicode.IsSpace restricted to the characters of the model's alphabet
IsSpace(c) == c \in {" ", "\t", "\n"}

RECURSIVE FieldsFrom(_, _, _, _)
FieldsFrom(s, i, cur, acc) ==
    IF i > Len(s)
    THEN IF cur = <<>> THEN acc ELSE Append(acc, cur)
    ELSE IF IsSpace(s[i])
         THEN FieldsFrom(s, i + 1, <<>>, IF cur = <<>> THEN acc ELSE Append(acc, cur))
         ELSE FieldsFrom(s, i + 1, Append(cur, s[i]), acc)

\* strings.Fields: the maximal runs of non-space characters
Fields(s) == FieldsFrom(s, 1, <<>>, <<>>)

RECURSIVE SplitFrom(_, _, _, _, _)
SplitFrom(s, sep, i, cur, acc) ==
    IF i > Len(s) THEN Append(acc, cur)
    ELSE IF s[i] = sep
         THEN SplitFrom(s, sep, i + 1, <<>>, Append(acc, cur))
         ELSE SplitFrom(s, sep, i + 1, Append(cur, s[i]), acc)

\* strings.Split on a one-character separator: empty pieces are kept
Split(s, sep) == SplitFrom(s, sep, 1, <<>>, <<>>)

RECURSIVE DigitsValue(_, _, _)
DigitsValue(s, i, acc) ==
    IF i > Len(s) THEN acc
    ELSE DigitsValue(s, i + 1, acc * 10 + DigitVal(s[i]))

\* strconv.Atoi: an optional sign, then one or more decimal digits
Atoi(s) ==
    LET signed == Len(s) >= 1 /\ s[1] \in {"+", "-"}
        digits == IF signed THEN Tail(s) ELSE s
    IN  IF Len(digits) < 1 \/ \E i \in 1..Len(digits) : ~IsDigit(digits[i])
        THEN [ok |-> FALSE, val |-> 0]
        ELSE [ok |-> TRUE,
              val |-> IF signed /\ s[1] = "-"
                      THEN -DigitsValue(digits, 1, 0)
                      ELSE DigitsValue(digits, 1, 0)]

RECURSIVE ItoaNat(_)
ItoaNat(n) ==
    IF n < 10 THEN <<DigitChars[n + 1]>>
    ELSE Append(ItoaNat(n \div 10), DigitChars[(n % 10) + 1])

\* strconv.Itoa
Itoa(n) == IF n < 0 THEN <<"-">> \o ItoaNat(-n) ELSE ItoaNat(n)

-----------------------------------------------------------------------------
(* FEN parsing, fen.go                                                     *)

ErrFields == "invalid FEN: expected 6 space-separated fields"
ErrRanks == "invalid piece placement: expected 8 ranks"
ErrTooMany == "invalid piece placement: too many pieces in rank"
ErrPieceChar == "invalid piece character in FEN"
ErrRankLen == "invalid piece placement: rank doesn't have 8 squares"
ErrColor == "invalid active color in FEN: expected 'w' or 'b'"
ErrCastling == "invalid castling availability in FEN"
ErrEnPassant == "invalid en passant target square in FEN"
ErrHalfmove == "invalid halfmove clock in FEN"
ErrFullmove == "invalid fullmove number in FEN"
NoErr == ""

\* the loop over the characters of one rank string in parsePiecePlacement
RECURSIVE parseRankChars(_, _, _, _, _)
parseRankChars(rankStr, i, file, rank, P) ==
    IF i > Len(rankStr) THEN [err |-> NoErr, file |-> file, Piece |-> P]
    ELSE IF file >= 8 THEN [err |-> ErrTooMany, file |-> file, Piece |-> P]
    ELSE IF rankStr[i] \in {"1", "2", "3", "4", "5", "6", "7", "8"}
         THEN parseRankChars(rankStr, i + 1, file + DigitVal(rankStr[i]), rank, P)
    ELSE IF pieceFromChar(rankStr[i]) = NoPiece
         THEN [err |-> ErrPieceChar, file |-> file, Piece |-> P]
    ELSE parseRankChars(rankStr, i + 1, file + 1, rank,
                        [P EXCEPT ![Square(file, rank)] = pieceFromChar(rankStr[i])])

\* the loop over the ranks 7..0 in parsePiecePlacement
RECURSIVE parseRanks(_, _, _)
parseRanks(ranks, rank, P) ==
    IF rank < 0 THEN [err |-> NoErr, Piece |-> P]
    ELSE LET r == parseRankChars(ranks[(7 - rank) + 1], 1, 0, rank, P)
         IN  IF r.err /= NoErr THEN [err |-> r.err, Piece |-> r.Piece]
             ELSE IF r.file /= 8 THEN [err |-> ErrRankLen, Piece |-> r.Piece]
             ELSE parseRanks(ranks, rank - 1, r.Piece)

\* parsePiecePlacement refusing only placements of fewer than eight ranks
parsePiecePlacementAtLeastEight(board, placement) ==
    LET ranks == Split(placement, "/")
    IN  IF Len(ranks) < 8 THEN [err |-> ErrRanks, board |-> board]
        ELSE LET r == parseRanks(ranks, 7, [sq \in Squares |-> NoPiece])
             IN  [err |-> r.err, board |-> [board EXCEPT !.Piece = r.Piece]]

\* parsePiecePlacement: [err, board]
parsePiecePlacement(board, placement) ==
    LET ranks == Split(placement, "/")
    IN  IF Len(ranks) /= 8 THEN [err |-> ErrRanks, board |-> board]
        ELSE LET r == parseRanks(ranks, 7, [sq \in Squares |-> NoPiece])
             IN  [err |-> r.err, board |-> [board EXCEPT !.Piece = r.Piece]]

\* parseActiveColor
parseActiveColor(board, color) ==
    IF color = <<"w">> THEN [err |-> NoErr, board |-> [board EXCEPT !.SideToMove = White]]
    ELSE IF color = <<"b">> THEN [err |-> NoErr, board |-> [board EXCEPT !.SideToMove = Black]]
    ELSE [err |-> ErrColor, board |-> board]

\* the loop over the characters of the castling field in parseCastling
RECURSIVE parseCastlingChars(_, _, _)
parseCastlingChars(castling, i, C) ==
    IF i > Len(castling) THEN [err |-> NoErr, CastleSq |-> C]
    ELSE IF castling[i] = "K" THEN parseCastlingChars(castling, i + 1, [C EXCEPT ![WhiteOO] = H1])
    ELSE IF castling[i] = "Q" THEN parseCastlingChars(castling, i + 1, [C EXCEPT ![WhiteOOO] = A1])
    ELSE IF castling[i] = "k" THEN parseCastlingChars(castling, i + 1, [C EXCEPT ![BlackOO] = H8])
    ELSE IF castling[i] = "q" THEN parseCastlingChars(castling, i + 1, [C EXCEPT ![BlackOOO] = A8])
    ELSE [err |-> ErrCastling, CastleSq |-> C]

\* parseCastling without the loop of lines 105-107: the rights start from
\* the Board's zero values
parseCastlingKeepsZero(board, castling) ==
    IF castling = <<"-">> THEN [err |-> NoErr, board |-> board]
    ELSE LET r == parseCastlingChars(castling, 1, board.CastleSq)
         IN  [err |-> r.err, board |-> [board EXCEPT !.CastleSq = r.CastleSq]]

\* parseCastling
parseCastling(board, castling) ==
    LET none == [i \in 0..3 |-> NoSquare]
    IN  IF castling = <<"-">> THEN [err |-> NoErr, board |-> [board EXCEPT !.CastleSq = none]]
        ELSE LET r == parseCastlingChars(castling, 1, none)
             IN  [err |-> r.err, board |-> [board EXCEPT !.CastleSq = r.CastleSq]]

\* parseEnPassant
parseEnPassant(board, enPassant) ==
    IF enPassant = <<"-">> THEN [err |-> NoErr, board |-> [board EXCEPT !.EpSquare = NoSquare]]
    ELSE IF squareFromString(enPassant) = NoSquare THEN [err |-> ErrEnPassant, board |-> board]
    ELSE [err |-> NoErr, board |-> [board EXCEPT !.EpSquare = squareFromString(enPassant)]]

\* ParseFen refusing only texts of fewer than six fields
ParseFenAtLeastSix(text) ==
    LET parts == Fields(text)
        Fail(e) == [board |-> NilBoard, err |-> e]
    IN  IF Len(parts) < 6 THEN Fail(ErrFields)
        ELSE LET r1 == parsePiecePlacement(ZeroBoard, parts[1]) IN
        IF r1.err /= NoErr THEN Fail(r1.err)
        ELSE LET r2 == parseActiveColor(r1.board, parts[2]) IN
        IF r2.err /= NoErr THEN Fail(r2.err)
        ELSE LET r3 == parseCastling(r2.board, parts[3]) IN
        IF r3.err /= NoErr THEN Fail(r3.err)
        ELSE LET r4 == parseEnPassant(r3.board, parts[4]) IN
        IF r4.err /= NoErr THEN Fail(r4.err)
        ELSE LET halfmove == Atoi(parts[5]) IN
        IF ~halfmove.ok THEN Fail(ErrHalfmove)
        ELSE LET fullmove == Atoi(parts[6]) IN
        IF ~fullmove.ok THEN Fail(ErrFullmove)
        ELSE [board |-> [r4.board EXCEPT !.Rule50 = halfmove.val, !.MoveNr = fullmove.val],
              err |-> NoErr]

\* ParseFen reading the en-passant field before the castling field
ParseFenEnPassantFirst(text) ==
    LET parts == Fields(text)
        Fail(e) == [board |-> NilBoard, err |-> e]
    IN  IF Len(parts) /= 6 THEN Fail(ErrFields)
        ELSE LET r1 == parsePiecePlacement(ZeroBoard, parts[1]) IN
        IF r1.err /= NoErr THEN Fail(r1.err)
        ELSE LET r2 == parseActiveColor(r1.board, parts[2]) IN
        IF r2.err /= NoErr THEN Fail(r2.err)
        ELSE LET r3 == parseEnPassant(r2.board, parts[4]) IN
        IF r3.err /= NoErr THEN Fail(r3.err)
        ELSE LET r4 == parseCastling(r3.board, parts[3]) IN
        IF r4.err /= NoErr THEN Fail(r4.err)
        ELSE LET halfmove == Atoi(parts[5]) IN
        IF ~halfmove.ok THEN Fail(ErrHalfmove)
        ELSE LET fullmove == Atoi(parts[6]) IN
        IF ~fullmove.ok THEN Fail(ErrFullmove)
        ELSE [board |-> [r4.board EXCEPT !.Rule50 = halfmove.val, !.MoveNr = fullmove.val],
              err |-> NoErr]

\* ParseFen: [board, err]; board is NilBoard whenever err is set
ParseFen(text) ==
    LET parts == Fields(text)
        Fail(e) == [board |-> NilBoard, err |-> e]
    IN  IF Len(parts) /= 6 THEN Fail(ErrFields)
        ELSE LET r1 == parsePiecePlacement(ZeroBoard, parts[1]) IN
        IF r1.err /= NoErr THEN Fail(r1.err)
        ELSE LET r2 == parseActiveColor(r1.board, parts[2]) IN
        IF r2.err /= NoErr THEN Fail(r2.err)
        ELSE LET r3 == parseCastling(r2.board, parts[3]) IN
        IF r3.err /= NoErr THEN Fail(r3.err)
        ELSE LET r4 == parseEnPassant(r3.board, parts[4]) IN
        IF r4.err /= NoErr THEN Fail(r4.err)
        ELSE LET halfmove == Atoi(parts[5]) IN
        IF ~halfmove.ok THEN Fail(ErrHalfmove)
        ELSE LET fullmove == Atoi(parts[6]) IN
        IF ~fullmove.ok THEN Fail(ErrFullmove)
        ELSE [board |-> [r4.board EXCEPT !.Rule50 = halfmove.val, !.MoveNr = fullmove.val],
              err |-> NoErr]

-----------------------------------------------------------------------------
(* FEN serialisation, fen.go                                               *)

\* the loop over the files of one rank in Board.Fen
RECURSIVE fenRankFiles(_, _, _, _, _)
fenRankFiles(board, rank, file, emptyCount, sb) ==
    IF file >= 8
    THEN IF emptyCount > 0 THEN sb \o Itoa(emptyCount) ELSE sb
    ELSE LET piece == board.Piece[Square(file, rank)]
         IN  IF piece = NoPiece
             THEN fenRankFiles(board, rank, file + 1, emptyCount + 1, sb)
             ELSE fenRankFiles(board, rank, file + 1, 0,
                      Append(IF emptyCount > 0 THEN sb \o Itoa(emptyCount) ELSE sb,
                             PieceRunes[piece + 1]))

\* the loop over the ranks 7..0 in Board.Fen
RECURSIVE fenRanks(_, _, _)
fenRanks(board, rank, sb) ==
    IF rank < 0 THEN sb
    ELSE fenRanks(board, rank - 1,
                  LET s == fenRankFiles(board, rank, 0, 0, sb)
                  IN  IF rank > 0 THEN Append(s, "/") ELSE s)

\* castling letters emitted queen side first
fenCastlingQueenFirst(board) ==
    LET s == (IF board.CastleSq[WhiteOOO] = A1 THEN <<"Q">> ELSE <<>>)
             \o (IF board.CastleSq[WhiteOO] = H1 THEN <<"K">> ELSE <<>>)
             \o (IF board.CastleSq[BlackOOO] = A8 THEN <<"q">> ELSE <<>>)
             \o (IF board.CastleSq[BlackOO] = H8 THEN <<"k">> ELSE <<>>)
    IN  IF Len(s) = 0 THEN <<"-">> ELSE s

\* the castling letters Board.Fen emits, "-" when there are none
fenCastling(board) ==
    LET s == (IF board.CastleSq[WhiteOO] = H1 THEN <<"K">> ELSE <<>>)
             \o (IF board.CastleSq[WhiteOOO] = A1 THEN <<"Q">> ELSE <<>>)
             \o (IF board.CastleSq[BlackOO] = H8 THEN <<"k">> ELSE <<>>)
             \o (IF board.CastleSq[BlackOOO] = A8 THEN <<"q">> ELSE <<>>)
    IN  IF Len(s) = 0 THEN <<"-">> ELSE s

\* Board.Fen writing "-" for every en-passant square
FenWithoutEnPassant(board) ==
    fenRanks(board, 7, <<>>)
    \o <<" ">> \o (IF board.SideToMove = White THEN <<"w">> ELSE <<"b">>)
    \o <<" ">> \o fenCastling(board)
    \o <<" ">> \o <<"-">>
    \o <<" ">> \o Itoa(board.Rule50)
    \o <<" ">> \o Itoa(board.MoveNr)

\* Board.Fen
Fen(board) ==
    fenRanks(board, 7, <<>>)
    \o <<" ">> \o (IF board.SideToMove = White THEN <<"w">> ELSE <<"b">>)
    \o <<" ">> \o fenCastling(board)
    \o <<" ">> \o (IF board.EpSquare = NoSquare THEN <<"-">> ELSE SqString(board.EpSquare))
    \o <<" ">> \o Itoa(board.Rule50)
    \o <<" ">> \o Itoa(board.MoveNr)

-----------------------------------------------------------------------------
(* Moves and move application, board.go                                    *)

\* Board.my
my(board, piece) == board.SideToMove + piece

\* Board.opp
opp(board, piece) == (1 - board.SideToMove) + piece

\* Move: From, To, Promotion
Move(from, to, promotion) == [From |-> from, To |-> to, Promotion |-> promotion]

\* the distinguished null move
NullMove == [From |-> NoSquare, To |-> NoSquare, Promotion |-> NoPiece]

\* Board.find: the first square holding piece, walking from sq0 to sq1
find(board, piece, sq0, sq1) ==
    LET lo == IF sq0 > sq1 THEN sq1 ELSE sq0
        hi == IF sq0 > sq1 THEN sq0 ELSE sq1
        hits == {sq \in lo..hi : board.Piece[sq] = piece}
    IN  IF hits = {} THEN NoSquare
        ELSE IF sq0 > sq1 THEN CHOOSE sq \in hits : \A t \in hits : t <= sq
        ELSE CHOOSE sq \in hits : \A t \in hits : sq <= t

\* the mover's home rank
HomeRank(side) == IF side = White THEN Rank1 ELSE Rank8

\* Board.castleSquares: rook and king origin, rook and king destination
castleSquares(board, wing) ==
    LET side == board.SideToMove
        r == HomeRank(side)
    IN  [rookFrom |-> board.CastleSq[side + wing],
         kingFrom |-> find(board, my(board, King), Square(FileA, r), Square(FileH, r)),
         rookTo |-> Square(IF wing = kingSide THEN 5 ELSE 3, r),
         kingTo |-> Square(IF wing = kingSide THEN 6 ELSE 2, r)]

\* the reset of a move that forgets the en-passant square
MakeMoveResetKeepsEp(board) ==
    [board EXCEPT !.checkFrom = A1, !.checkTo = A1]

\* MakeMove, lines 186-190: what a move resets before it is applied
MakeMoveReset(board) ==
    [board EXCEPT !.EpSquare = NoSquare, !.checkFrom = A1, !.checkTo = A1]

\* the castling case clearing only the right of the wing castled on
MakeMoveCastleOneRight(board, m) ==
    LET wing == IF m.To < m.From THEN queenSide ELSE kingSide
        cs == castleSquares(board, wing)
        P1 == [board.Piece EXCEPT ![cs.rookFrom] = NoPiece]
        P2 == [P1 EXCEPT ![cs.kingFrom] = NoPiece]
        P3 == [P2 EXCEPT ![cs.rookTo] = my(board, Rook)]
        P4 == [P3 EXCEPT ![cs.kingTo] = my(board, King)]
    IN  [board EXCEPT
            !.Piece = P4,
            !.checkFrom = IF cs.kingFrom < cs.kingTo THEN cs.kingFrom ELSE cs.kingTo,
            !.checkTo = IF cs.kingFrom < cs.kingTo THEN cs.kingTo ELSE cs.kingFrom,
            !.CastleSq = [board.CastleSq EXCEPT ![board.SideToMove + wing] = NoSquare],
            !.Rule50 = board.Rule50 + 1]

\* MakeMove, lines 195-212: the castling case
MakeMoveCastle(board, m) ==
    LET wing == IF m.To < m.From THEN queenSide ELSE kingSide
        cs == castleSquares(board, wing)
        P1 == [board.Piece EXCEPT ![cs.rookFrom] = NoPiece]
        P2 == [P1 EXCEPT ![cs.kingFrom] = NoPiece]
        P3 == [P2 EXCEPT ![cs.rookTo] = my(board, Rook)]
        P4 == [P3 EXCEPT ![cs.kingTo] = my(board, King)]
    IN  [board EXCEPT
            !.Piece = P4,
            !.checkFrom = IF cs.kingFrom < cs.kingTo THEN cs.kingFrom ELSE cs.kingTo,
            !.checkTo = IF cs.kingFrom < cs.kingTo THEN cs.kingTo ELSE cs.kingFrom,
            !.CastleSq = [i \in 0..3 |->
                            IF i = board.SideToMove + kingSide \/ i = board.SideToMove + queenSide
                            THEN NoSquare ELSE board.CastleSq[i]],
            !.Rule50 = board.Rule50 + 1]

\* the pawn cases with the en-passant square put a whole step from the origin
MakeMovePawnEpOnDestination(board, m, epSquare) ==
    LET dy == Rank(m.To) - Rank(m.From)
    IN  IF dy = 2 \/ dy = -2
        THEN [board EXCEPT !.EpSquare = Square(File(m.From), Rank(m.From) + dy)]
        ELSE IF m.To = epSquare
        THEN [board EXCEPT !.Piece =
                [[board.Piece EXCEPT ![Square(File(m.To), Rank(m.From))] = NoPiece]
                    EXCEPT ![epSquare] = opp(board, Pawn)]]
        ELSE IF RelativeRank(m.To, board.SideToMove) = Rank8
        THEN [board EXCEPT !.Piece = [board.Piece EXCEPT ![m.From] = m.Promotion]]
        ELSE board

\* the pawn cases with the pawn captured en passant left on its square
MakeMovePawnKeepsCaptured(board, m, epSquare) ==
    LET dy == Rank(m.To) - Rank(m.From)
    IN  IF dy = 2 \/ dy = -2
        THEN [board EXCEPT !.EpSquare = Square(File(m.From), Rank(m.From) + GoDiv(dy, 2))]
        ELSE IF m.To = epSquare
        THEN [board EXCEPT !.Piece = [board.Piece EXCEPT ![epSquare] = opp(board, Pawn)]]
        ELSE IF RelativeRank(m.To, board.SideToMove) = Rank8
        THEN [board EXCEPT !.Piece = [board.Piece EXCEPT ![m.From] = m.Promotion]]
        ELSE board

\* the pawn cases with the en-passant square set by single steps as well
MakeMovePawnEpOnAnyStep(board, m, epSquare) ==
    LET dy == Rank(m.To) - Rank(m.From)
    IN  IF dy >= -2 /\ dy <= 2 /\ File(m.From) = File(m.To)
        THEN [board EXCEPT !.EpSquare = Square(File(m.From), Rank(m.From) + GoDiv(dy, 2))]
        ELSE IF m.To = epSquare
        THEN [board EXCEPT !.Piece =
                [[board.Piece EXCEPT ![Square(File(m.To), Rank(m.From))] = NoPiece]
                    EXCEPT ![epSquare] = opp(board, Pawn)]]
        ELSE IF RelativeRank(m.To, board.SideToMove) = Rank8
        THEN [board EXCEPT !.Piece = [board.Piece EXCEPT ![m.From] = m.Promotion]]
        ELSE board

\* MakeMove, lines 215-227: the pawn special cases of an ordinary move
MakeMovePawn(board, m, epSquare) ==
    LET dy == Rank(m.To) - Rank(m.From)
    IN  IF dy = 2 \/ dy = -2
        THEN [board EXCEPT !.EpSquare = Square(File(m.From), Rank(m.From) + GoDiv(dy, 2))]
        ELSE IF m.To = epSquare
        THEN [board EXCEPT !.Piece =
                [[board.Piece EXCEPT ![Square(File(m.To), Rank(m.From))] = NoPiece]
                    EXCEPT ![epSquare] = opp(board, Pawn)]]
        ELSE IF RelativeRank(m.To, board.SideToMove) = Rank8
        THEN [board EXCEPT !.Piece = [board.Piece EXCEPT ![m.From] = m.Promotion]]
        ELSE board

\* castling rights derived anew from where the rooks stand
MakeMoveRightsFromPlacement(board, m, piece) ==
    LET home == [i \in 0..3 |-> Square(IF i \in {WhiteOO, BlackOO} THEN FileH ELSE FileA,
                                        HomeRank(i % 2))]
    IN  [i \in 0..3 |->
            IF home[i] = m.From \/ home[i] = m.To THEN NoSquare
            ELSE IF Type(piece) = King
                    /\ (i = board.SideToMove + kingSide \/ i = board.SideToMove + queenSide)
            THEN NoSquare
            ELSE IF board.Piece[home[i]] = (i % 2) + Rook THEN home[i]
            ELSE NoSquare]

\* castling rights cleared for the move's origin only
MakeMoveRightsOriginOnly(board, m, piece) ==
    [i \in 0..3 |->
        IF board.CastleSq[i] = m.From THEN NoSquare
        ELSE IF Type(piece) = King
                /\ (i = board.SideToMove + kingSide \/ i = board.SideToMove + queenSide)
        THEN NoSquare
        ELSE board.CastleSq[i]]

\* castling rights cleared for the rook squares only, not by a king move
MakeMoveRightsRookOnly(board, m, piece) ==
    [i \in 0..3 |->
        IF board.CastleSq[i] = m.From \/ board.CastleSq[i] = m.To THEN NoSquare
        ELSE board.CastleSq[i]]

\* MakeMove, lines 228-237: the castling rights after an ordinary move
MakeMoveRights(board, m, piece) ==
    [i \in 0..3 |->
        IF board.CastleSq[i] = m.From \/ board.CastleSq[i] = m.To THEN NoSquare
        ELSE IF Type(piece) = King
                /\ (i = board.SideToMove + kingSide \/ i = board.SideToMove + queenSide)
        THEN NoSquare
        ELSE board.CastleSq[i]]

\* the half-move counter reset by pawn moves only
MakeMoveRule50PawnOnly(board, m, piece) ==
    IF Type(piece) = Pawn THEN 0 ELSE board.Rule50 + 1

\* MakeMove, lines 238-243: the half-move counter after an ordinary move
MakeMoveRule50(board, m, piece) ==
    IF Type(piece) = Pawn \/ board.Piece[m.To] /= NoPiece THEN 0 ELSE board.Rule50 + 1

\* the default case with the moved piece left on its origin as well
MakeMoveDefaultKeepsOrigin(board, m, epSquare) ==
    LET piece == board.Piece[m.From]
        b1 == IF Type(piece) = Pawn THEN MakeMovePawn(board, m, epSquare) ELSE board
        b2 == [b1 EXCEPT !.CastleSq = MakeMoveRights(b1, m, piece),
                         !.Rule50 = MakeMoveRule50(b1, m, piece)]
    IN  [b2 EXCEPT !.Piece = [b2.Piece EXCEPT ![m.To] = b2.Piece[m.From]]]

\* MakeMove, lines 213-247: the default case
MakeMoveDefault(board, m, epSquare) ==
    LET piece == board.Piece[m.From]
        b1 == IF Type(piece) = Pawn THEN MakeMovePawn(board, m, epSquare) ELSE board
        b2 == [b1 EXCEPT !.CastleSq = MakeMoveRights(b1, m, piece),
                         !.Rule50 = MakeMoveRule50(b1, m, piece)]
    IN  [b2 EXCEPT !.Piece = [[b2.Piece EXCEPT ![m.To] = b2.Piece[m.From]]
                                 EXCEPT ![m.From] = NoPiece]]

\* the side change counting a full move after White's move
MakeMoveSwitchAfterWhite(board) ==
    [board EXCEPT !.SideToMove = 1 - board.SideToMove,
                  !.MoveNr = IF 1 - board.SideToMove = Black
                             THEN board.MoveNr + 1 ELSE board.MoveNr]

\* MakeMove, lines 248-252: switch the side to move
MakeMoveSwitch(board) ==
    [board EXCEPT !.SideToMove = 1 - board.SideToMove,
                  !.MoveNr = IF 1 - board.SideToMove = White
                             THEN board.MoveNr + 1 ELSE board.MoveNr]

\* the condition of MakeMove's castling case, line 195
IsCastling(board, m) ==
    /\ m /= NullMove
    /\ board.Piece[m.From] = my(board, King)
    /\ board.Piece[m.To] = my(board, Rook)

\* MakeMove, lines 192-252: the switch and the side change, on the reset board
MakeMoveApply(board, m, epSquare) ==
    MakeMoveSwitch(
        IF m = NullMove THEN board
        ELSE IF IsCastling(board, m) THEN MakeMoveCastle(board, m)
        ELSE MakeMoveDefault(board, m, epSquare))

\* the indices at which MakeMove reads or writes b.Piece, with line 222
\* stepping one file past the destination
MakeMoveAccessesPastCaptured(board, m) ==
    IF m = NullMove THEN {}
    ELSE IF IsCastling(board, m)
    THEN LET cs == castleSquares(board, IF m.To < m.From THEN queenSide ELSE kingSide)
         IN  {m.From, m.To, cs.rookFrom, cs.kingFrom, cs.rookTo, cs.kingTo}
    ELSE LET dy == Rank(m.To) - Rank(m.From)
         IN  {m.From, m.To}
             \cup (IF Type(board.Piece[m.From]) = Pawn /\ dy \notin {2, -2}
                      /\ m.To = board.EpSquare
                   THEN {Square(File(m.To) + (File(m.To) - File(m.From)), Rank(m.From)),
                         board.EpSquare}
                   ELSE {})

\* the indices at which MakeMove reads or writes b.Piece: lines 195 and 214
\* (origin, destination), 201-204 (castling), 222-223 (en passant), 239-246
MakeMoveAccesses(board, m) ==
    IF m = NullMove THEN {}
    ELSE IF IsCastling(board, m)
    THEN LET cs == castleSquares(board, IF m.To < m.From THEN queenSide ELSE kingSide)
         IN  {m.From, m.To, cs.rookFrom, cs.kingFrom, cs.rookTo, cs.kingTo}
    ELSE LET dy == Rank(m.To) - Rank(m.From)
         IN  {m.From, m.To}
             \cup (IF Type(board.Piece[m.From]) = Pawn /\ dy \notin {2, -2}
                      /\ m.To = board.EpSquare
                   THEN {Square(File(m.To), Rank(m.From)), board.EpSquare}
                   ELSE {})

\* Board.MakeMove: the Board the call returns
MakeMove(board, m) == MakeMoveApply(MakeMoveReset(board), m, board.EpSquare)

-----------------------------------------------------------------------------
(* Move generation and the attack oracle                                   *)

\* the square df files and dr ranks away from sq, NoSquare off the board
Step(sq, df, dr) == Square(File(sq) + df, Rank(sq) + dr)

KnightOffsets == {<<1, 2>>, <<2, 1>>, <<2, -1>>, <<1, -2>>,
                  <<-1, -2>>, <<-2, -1>>, <<-2, 1>>, <<-1, 2>>}
DiagonalDirs == {<<1, 1>>, <<1, -1>>, <<-1, 1>>, <<-1, -1>>}
StraightDirs == {<<1, 0>>, <<-1, 0>>, <<0, 1>>, <<0, -1>>}
KingOffsets == DiagonalDirs \cup StraightDirs

\* the direction a pawn of the colour advances in
Forward(color) == IF color = White THEN 1 ELSE -1

IsOwn(board, sq, color) ==
    board.Piece[sq] /= NoPiece /\ Color(board.Piece[sq]) = color

\* the first occupied square from sq in direction d, NoSquare when none
RECURSIVE FirstOccupied(_, _, _)
FirstOccupied(board, sq, d) ==
    LET n == Step(sq, d[1], d[2])
    IN  IF n = NoSquare THEN NoSquare
        ELSE IF board.Piece[n] /= NoPiece THEN n
        ELSE FirstOccupied(board, n, d)

\* isAttacked: could a piece of bySide move onto sq under the pseudo-move rules
isAttacked(board, sq, bySide) ==
    \/ \E df \in {-1, 1} :
          LET p == Step(sq, df, -Forward(bySide))
          IN  p /= NoSquare /\ board.Piece[p] = bySide + Pawn
    \/ \E o \in KnightOffsets :
          LET p == Step(sq, o[1], o[2])
          IN  p /= NoSquare /\ board.Piece[p] = bySide + Knight
    \/ \E o \in KingOffsets :
          LET p == Step(sq, o[1], o[2])
          IN  p /= NoSquare /\ board.Piece[p] = bySide + King
    \/ \E d \in DiagonalDirs :
          LET p == FirstOccupied(board, sq, d)
          IN  p /= NoSquare /\ board.Piece[p] \in {bySide + Bishop, bySide + Queen}
    \/ \E d \in StraightDirs :
          LET p == FirstOccupied(board, sq, d)
          IN  p /= NoSquare /\ board.Piece[p] \in {bySide + Rook, bySide + Queen}

\* the squares a sliding piece of the colour reaches from sq in direction d
RECURSIVE Ray(_, _, _, _)
Ray(board, sq, d, color) ==
    LET n == Step(sq, d[1], d[2])
    IN  IF n = NoSquare THEN {}
        ELSE IF board.Piece[n] = NoPiece THEN {n} \cup Ray(board, n, d, color)
        ELSE IF Color(board.Piece[n]) /= color THEN {n}
        ELSE {}

\* the moves of a pawn to the square to: one per promotion piece on the back rank
PawnMovesTo(board, from, to) ==
    IF RelativeRank(to, board.SideToMove) = Rank8
    THEN {Move(from, to, my(board, t)) : t \in {Queen, Rook, Bishop, Knight}}
    ELSE {Move(from, to, NoPiece)}

\* the pseudo-moves of the pawn on from
PawnMoves(board, from) ==
    LET side == board.SideToMove
        one == Step(from, 0, Forward(side))
        two == Step(from, 0, 2 * Forward(side))
        push == IF one /= NoSquare /\ board.Piece[one] = NoPiece
                THEN PawnMovesTo(board, from, one) ELSE {}
        double == IF /\ RelativeRank(from, side) = 1
                     /\ one /= NoSquare /\ board.Piece[one] = NoPiece
                     /\ two /= NoSquare /\ board.Piece[two] = NoPiece
                  THEN {Move(from, two, NoPiece)} ELSE {}
        takes == UNION {LET to == Step(from, df, Forward(side))
                        IN  IF to /= NoSquare
                               /\ (IsOwn(board, to, 1 - side) \/ to = board.EpSquare)
                            THEN PawnMovesTo(board, from, to) ELSE {}
                        : df \in {-1, 1}}
    IN  push \cup double \cup takes

\* the pseudo-moves of a knight or king on from
OffsetMoves(board, from, offsets) ==
    {Move(from, Step(from, o[1], o[2]), NoPiece) :
        o \in {x \in offsets : LET to == Step(from, x[1], x[2])
                               IN  to /= NoSquare /\ ~IsOwn(board, to, board.SideToMove)}}

\* the pseudo-moves of a bishop, rook or queen on from
SlidingMoves(board, from, dirs) ==
    {Move(from, to, NoPiece) :
        to \in UNION {Ray(board, from, d, board.SideToMove) : d \in dirs}}

\* the squares strictly between two squares of one rank
Between(sq0, sq1) ==
    {sq \in Squares : (sq0 < sq /\ sq < sq1) \/ (sq1 < sq /\ sq < sq0)}

\* CastlingMoves asking for every square between rook and king to be safe too
CastlingMovesRookPathSafe(board, wing) ==
    LET side == board.SideToMove
        cs == castleSquares(board, wing)
        lo == IF cs.kingFrom < cs.rookFrom THEN cs.kingFrom ELSE cs.rookFrom
        hi == IF cs.kingFrom < cs.rookFrom THEN cs.rookFrom ELSE cs.kingFrom
    IN  IF /\ cs.rookFrom /= NoSquare
           /\ cs.kingFrom /= NoSquare
           /\ \A sq \in Between(cs.kingFrom, cs.rookFrom) : board.Piece[sq] = NoPiece
           /\ \A sq \in lo..hi : ~isAttacked(board, sq, 1 - side)
        THEN {Move(cs.kingFrom, cs.rookFrom, NoPiece)}
        ELSE {}

\* the castling pseudo-move of a wing: the king "captures" its own rook
CastlingMoves(board, wing) ==
    LET side == board.SideToMove
        cs == castleSquares(board, wing)
        lo == IF cs.kingFrom < cs.kingTo THEN cs.kingFrom ELSE cs.kingTo
        hi == IF cs.kingFrom < cs.kingTo THEN cs.kingTo ELSE cs.kingFrom
    IN  IF /\ cs.rookFrom /= NoSquare
           /\ cs.kingFrom /= NoSquare
           /\ \A sq \in Between(cs.kingFrom, cs.rookFrom) : board.Piece[sq] = NoPiece
           /\ \A sq \in lo..hi : ~isAttacked(board, sq, 1 - side)
        THEN {Move(cs.kingFrom, cs.rookFrom, NoPiece)}
        ELSE {}

\* the pseudo-moves of the piece on from
PieceMoves(board, from) ==
    LET t == Type(board.Piece[from])
    IN  IF t = Pawn THEN PawnMoves(board, from)
        ELSE IF t = Knight THEN OffsetMoves(board, from, KnightOffsets)
        ELSE IF t = King THEN OffsetMoves(board, from, KingOffsets)
        ELSE IF t = Bishop THEN SlidingMoves(board, from, DiagonalDirs)
        ELSE IF t = Rook THEN SlidingMoves(board, from, StraightDirs)
        ELSE SlidingMoves(board, from, DiagonalDirs \cup StraightDirs)

\* the pseudo-legal moves of the side to move
PseudoMoves(board) ==
    UNION {PieceMoves(board, from) :
              from \in {sq \in Squares : IsOwn(board, sq, board.SideToMove)}}
    \cup CastlingMoves(board, kingSide) \cup CastlingMoves(board, queenSide)

\* LegalMoves without the filter: every pseudo-move is returned
LegalMovesUnfiltered(board) == PseudoMoves(board)

\* LegalMoves: the pseudo-moves after which the mover's king is not attacked
LegalMoves(board) ==
    {m \in PseudoMoves(board) :
        LET nb == MakeMove(board, m)
            ksq == find(nb, my(board, King), A1, H8)
        IN  ksq = NoSquare \/ ~isAttacked(nb, ksq, nb.SideToMove)}

\* IsCheckOrMate with mate for every position without a legal move
IsCheckOrMateNoMoves(board) ==
    LET ksq == find(board, my(board, King), A1, H8)
        check == ksq /= NoSquare /\ isAttacked(board, ksq, 1 - board.SideToMove)
    IN  [check |-> check, mate |-> LegalMoves(board) = {}]

\* IsCheckOrMate: check when the king of the side to move is attacked, mate
\* when it is check and no move is legal
IsCheckOrMate(board) ==
    LET ksq == find(board, my(board, King), A1, H8)
        check == ksq /= NoSquare /\ isAttacked(board, ksq, 1 - board.SideToMove)
    IN  [check |-> check, mate |-> check /\ LegalMoves(board) = {}]

\* what a game that is not running holds for IsCheckOrMate's result
NoStatus == [check |-> FALSE, mate |-> FALSE]

-----------------------------------------------------------------------------
(* Material                                                                 *)

\* the colour of a square taken from its rank alone
SqColorByRank(sq) == (Rank(sq) + 1) % 2

\* Sq.Color
SqColor(sq) == (File(sq) + Rank(sq) + 1) % 2

\* Board.GetPieceTypes: the pieces of the colour, kings included, each with
\* its square, in the order of the squares
GetPieceTypes(board, color) ==
    LET all == [i \in 1..64 |-> [piece |-> board.Piece[i - 1], sq |-> i - 1]]
        OfColor(e) == e.piece /= NoPiece /\ Color(e.piece) = color
    IN  SelectSeq(all, OfColor)

\* HasInsufficientMaterial with line 316 joining White's two bishop flags by
\* || instead of &&
HasInsufficientMaterialAnyBishop(board) ==
    LET whitePieces == GetPieceTypes(board, White)
        blackPieces == GetPieceTypes(board, Black)
        Has(pieces, set) == \E i \in 1..Len(pieces) : pieces[i].piece \in set
        Light(pieces, bishop) ==
            \E i \in 1..Len(pieces) :
                pieces[i].piece = bishop /\ SqColor(pieces[i].sq) = 0
        Dark(pieces, bishop) ==
            \E i \in 1..Len(pieces) :
                pieces[i].piece = bishop /\ SqColor(pieces[i].sq) /= 0
        KnightCount(pieces, knight) ==
            Cardinality({i \in 1..Len(pieces) : pieces[i].piece = knight})
    IN  IF Len(whitePieces) > 3 \/ Len(blackPieces) > 3 THEN FALSE
        ELSE IF Has(whitePieces, {WR, WP, WQ}) THEN FALSE
        ELSE IF Light(whitePieces, WB) \/ Dark(whitePieces, WB) THEN FALSE
        ELSE IF KnightCount(whitePieces, WN) > 1 THEN FALSE
        ELSE IF Has(blackPieces, {BR, BP, BQ}) THEN FALSE
        ELSE IF Light(blackPieces, WB) /\ Dark(blackPieces, WB) THEN FALSE
        ELSE IF KnightCount(blackPieces, WN) > 1 THEN FALSE
        ELSE IF (Light(blackPieces, WB) \/ Dark(blackPieces, WB))
                /\ KnightCount(blackPieces, WN) >= 1 THEN FALSE
        ELSE TRUE

\* Board.HasInsufficientMaterial; the scan of Black's pieces compares with WB
\* and WN, as lines 336 and 343 do
HasInsufficientMaterial(board) ==
    LET whitePieces == GetPieceTypes(board, White)
        blackPieces == GetPieceTypes(board, Black)
        Has(pieces, set) == \E i \in 1..Len(pieces) : pieces[i].piece \in set
        Light(pieces, bishop) ==
            \E i \in 1..Len(pieces) :
                pieces[i].piece = bishop /\ SqColor(pieces[i].sq) = 0
        Dark(pieces, bishop) ==
            \E i \in 1..Len(pieces) :
                pieces[i].piece = bishop /\ SqColor(pieces[i].sq) /= 0
        KnightCount(pieces, knight) ==
            Cardinality({i \in 1..Len(pieces) : pieces[i].piece = knight})
    IN  IF Len(whitePieces) > 3 \/ Len(blackPieces) > 3 THEN FALSE
        ELSE IF Has(whitePieces, {WR, WP, WQ}) THEN FALSE
        ELSE IF Light(whitePieces, WB) /\ Dark(whitePieces, WB) THEN FALSE
        ELSE IF KnightCount(whitePieces, WN) > 1 THEN FALSE
        ELSE IF (Light(whitePieces, WB) \/ Dark(whitePieces, WB))
                /\ KnightCount(whitePieces, WN) >= 1 THEN FALSE
        ELSE IF Has(blackPieces, {BR, BP, BQ}) THEN FALSE
        ELSE IF Light(blackPieces, WB) /\ Dark(blackPieces, WB) THEN FALSE
        ELSE IF KnightCount(blackPieces, WN) > 1 THEN FALSE
        ELSE IF (Light(blackPieces, WB) \/ Dark(blackPieces, WB))
                /\ KnightCount(blackPieces, WN) >= 1 THEN FALSE
        ELSE TRUE

-----------------------------------------------------------------------------
(* Notation: the SAN text of a move, and ParseMove                          *)

\* the upper-case letter of a piece's type
TypeLetter(p) == PieceRunes[Type(p) + 1]

\* the moves among moves by which another piece of the same kind reaches the
\* destination of m
Rivals(board, moves, m) ==
    {o \in moves :
        /\ o.To = m.To
        /\ o.From /= m.From
        /\ board.Piece[o.From] = board.Piece[m.From]}

\* the origin written without looking for other pieces: never any
SanOriginNever(board, moves, m) == <<>>

\* the origin file, rank or square SAN adds to tell m from its rivals
SanOrigin(board, moves, m) ==
    LET rivals == Rivals(board, moves, m)
    IN  IF rivals = {} THEN <<>>
        ELSE IF \A o \in rivals : File(o.From) /= File(m.From)
        THEN <<FileChars[File(m.From) + 1]>>
        ELSE IF \A o \in rivals : Rank(o.From) /= Rank(m.From)
        THEN <<RankChars[Rank(m.From) + 1]>>
        ELSE SqString(m.From)

\* "+" when the move gives check, "#" when it mates
SanSuffix(board, m) ==
    LET st == IsCheckOrMate(MakeMove(board, m))
    IN  IF st.mate THEN <<"#">> ELSE IF st.check THEN <<"+">> ELSE <<>>

\* Move.San, given the legal moves of the board
SanAmong(board, moves, m) ==
    LET piece == board.Piece[m.From]
        stem == IF IsCastling(board, m)
                THEN IF m.To > m.From THEN <<"O", "-", "O">>
                     ELSE <<"O", "-", "O", "-", "O">>
                ELSE IF Type(piece) = Pawn
                THEN (IF File(m.From) /= File(m.To)
                      THEN <<FileChars[File(m.From) + 1], "x">> ELSE <<>>)
                     \o SqString(m.To)
                     \o (IF m.Promotion /= NoPiece
                         THEN <<"=", TypeLetter(m.Promotion)>> ELSE <<>>)
                ELSE <<TypeLetter(piece)>>
                     \o SanOrigin(board, moves, m)
                     \o (IF board.Piece[m.To] /= NoPiece THEN <<"x">> ELSE <<>>)
                     \o SqString(m.To)
    IN  stem \o SanSuffix(board, m)

\* Move.San: the move in Standard Algebraic Notation
San(board, m) == SanAmong(board, LegalMoves(board), m)

ErrNoSuchMove == "no matching legal move"
ErrAmbiguousMove == "ambiguous: multiple legal moves match"

\* a text without its trailing "+" or "#"
StripSuffix(text) ==
    IF Len(text) > 0 /\ text[Len(text)] \in {"+", "#"}
    THEN SubSeq(text, 1, Len(text) - 1)
    ELSE text

\* what a SAN text asks of a move: the wing when castling (-1 otherwise), the
\* piece type, the origin file and rank (-1 when not written), the
\* destination and the promotion type; ok is FALSE for a text of another shape
SanFields(text) ==
    LET s == StripSuffix(text)
        hasPromo == Len(s) >= 2 /\ s[Len(s) - 1] = "="
        body == IF hasPromo THEN SubSeq(s, 1, Len(s) - 2) ELSE s
        hasLetter == Len(body) >= 1 /\ body[1] \in {"N", "B", "R", "Q", "K"}
        rest == IF hasLetter THEN Tail(body) ELSE body
        hint0 == IF Len(rest) >= 2 THEN SubSeq(rest, 1, Len(rest) - 2) ELSE <<>>
        hint == IF Len(hint0) >= 1 /\ hint0[Len(hint0)] = "x"
                THEN SubSeq(hint0, 1, Len(hint0) - 1) ELSE hint0
        to == IF Len(rest) >= 2
              THEN squareFromString(SubSeq(rest, Len(rest) - 1, Len(rest)))
              ELSE NoSquare
        none == [ok |-> FALSE, wing |-> -1, type |-> NoPiece, file |-> -1,
                 rank |-> -1, to |-> NoSquare, promo |-> NoPiece]
    IN  IF s = <<"O", "-", "O">> THEN [none EXCEPT !.ok = TRUE, !.wing = kingSide]
        ELSE IF s = <<"O", "-", "O", "-", "O">>
        THEN [none EXCEPT !.ok = TRUE, !.wing = queenSide]
        ELSE IF to = NoSquare \/ Len(hint) > 2 THEN none
        ELSE IF Len(hint) = 2 /\ squareFromString(hint) = NoSquare THEN none
        ELSE IF Len(hint) = 1 /\ IndexOf(FileChars, hint[1]) = 0
                              /\ IndexOf(RankChars, hint[1]) = 0 THEN none
        ELSE [ok |-> TRUE,
              wing |-> -1,
              type |-> IF hasLetter THEN Type(pieceFromChar(body[1])) ELSE Pawn,
              file |-> IF Len(hint) = 2 THEN File(squareFromString(hint))
                       ELSE IF Len(hint) = 1 THEN IndexOf(FileChars, hint[1]) - 1
                       ELSE -1,
              rank |-> IF Len(hint) = 2 THEN Rank(squareFromString(hint))
                       ELSE IF Len(hint) = 1 THEN IndexOf(RankChars, hint[1]) - 1
                       ELSE -1,
              to |-> to,
              promo |-> IF hasPromo THEN Type(pieceFromChar(s[Len(s)])) ELSE NoPiece]

\* Board.ParseMove for a SAN text, given the legal moves of the board: the
\* one legal move the text fits, an error when none or several fit
ParseMoveAmong(board, moves, text) ==
    LET f == SanFields(text)
        fits == {m \in moves :
                    IF f.wing /= -1
                    THEN IsCastling(board, m)
                         /\ (IF m.To < m.From THEN queenSide ELSE kingSide) = f.wing
                    ELSE /\ ~IsCastling(board, m)
                         /\ Type(board.Piece[m.From]) = f.type
                         /\ m.To = f.to
                         /\ (f.file /= -1 => File(m.From) = f.file)
                         /\ (f.rank /= -1 => Rank(m.From) = f.rank)
                         /\ Type(m.Promotion) = f.promo}
    IN  IF ~f.ok \/ fits = {} THEN [move |-> NullMove, err |-> ErrNoSuchMove]
        ELSE IF Cardinality(fits) > 1 THEN [move |-> NullMove, err |-> ErrAmbiguousMove]
        ELSE [move |-> CHOOSE m \in fits : TRUE, err |-> NoErr]

\* Board.ParseMove: the text resolved against the board's legal moves
ParseMove(board, text) == ParseMoveAmong(board, LegalMoves(board), text)

-----------------------------------------------------------------------------
(* The FEN texts the codec is run on                                       *)

\* placement fields: canonical, with a split run of empty squares, and
\* malformed: a rank of 7 files, of 9 files, an unknown letter, seven ranks,
\* a letter after the eighth file, the digit 0, nine ranks
FenPlacements ==
    {<<"4", "k", "3", "/", "8", "/", "8", "/", "8", "/", "8", "/", "8", "/",
      "4", "P", "3", "/", "4", "K", "3">>,
     <<"r", "3", "k", "2", "r", "/", "8", "/", "8", "/", "3", "p", "P", "3",
      "/", "8", "/", "8", "/", "8", "/", "R", "3", "K", "2", "R">>,
     <<"4", "k", "3", "/", "4", "4", "/", "8", "/", "8", "/", "8", "/", "8",
      "/", "8", "/", "4", "K", "3">>,
     <<"4", "k", "3", "/", "8", "/", "8", "/", "8", "/", "8", "/", "8", "/",
      "8", "/", "4", "K", "2">>,
     <<"4", "k", "3", "/", "8", "/", "8", "/", "8", "/", "8", "/", "8", "/",
      "8", "/", "4", "K", "4">>,
     <<"4", "k", "3", "/", "8", "/", "8", "/", "8", "/", "8", "/", "8", "/",
      "4", "X", "3", "/", "4", "K", "3">>,
     <<"4", "k", "3", "/", "8", "/", "8", "/", "8", "/", "8", "/", "8", "/",
      "4", "K", "3">>,
     <<"4", "k", "3", "/", "8", "/", "8", "/", "8", "/", "8", "/", "8", "/",
       "8", "P", "/", "4", "K", "3">>,
     <<"4", "k", "3", "/", "8", "/", "8", "/", "8", "/", "8", "/", "8", "/",
       "0", "8", "/", "4", "K", "3">>,
     <<"4", "k", "3", "/", "8", "/", "8", "/", "8", "/", "8", "/", "8", "/",
       "8", "/", "4", "K", "3", "/", "8">>}

\* active colour fields
FenColors ==
    {<<"w">>,
     <<"b">>,
     <<"x">>}

\* castling fields: in and out of the order K, Q, k, q, repeated, and malformed
FenCastlings ==
    {<<"-">>,
     <<"K", "Q", "k", "q">>,
     <<"K", "q">>,
     <<"q", "K">>,
     <<"K", "K">>,
     <<"K", "Q", "x">>}

\* en-passant fields
FenEnPassants ==
    {<<"-">>,
     <<"e", "3">>,
     <<"d", "6">>,
     <<"h", "1">>,
     <<"e", "9">>}

\* half-move clock fields
FenHalfmoves ==
    {<<"0">>,
     <<"1", "2">>,
     <<"0", "7">>,
     <<"+", "3">>,
     <<"x">>}

\* full-move number fields
FenFullmoves ==
    {<<"1">>,
     <<"4", "0">>,
     <<"-", "2">>}

\* what separates two fields
FenSeparators ==
    {<<" ">>,
     <<" ", " ">>,
     <<"\t">>}

\* what precedes the first field and follows the last
FenMargins == {<<>>, <<" ">>}

\* the six fields joined by a separator, inside margins
FenText(f, sep, lead, trail) ==
    lead \o f[1] \o sep \o f[2] \o sep \o f[3] \o sep \o f[4] \o sep \o f[5]
         \o sep \o f[6] \o trail

\* texts with six fields
FenSixFields ==
    {FenText(<<p, c, k, e, h, n>>, <<" ">>, <<>>, <<>>) :
        p \in FenPlacements, c \in FenColors, k \in FenCastlings,
        e \in FenEnPassants, h \in FenHalfmoves, n \in FenFullmoves}

\* one well-formed text under every separator and margin
FenSpaced ==
    {FenText(<<p, <<"w">>, <<"K", "Q", "k", "q">>, <<"-">>, <<"0">>, <<"1">>>>, sep, lead, trail) :
        p \in FenPlacements, sep \in FenSeparators, lead \in FenMargins, trail \in FenMargins}

\* texts with no field, with five fields and with seven, among them a
\* well-formed text cut short by its last field and one followed by a seventh
FenMiscounted ==
    {<<>>,
     <<" ">>,
     <<"8", " ", "w", " ", "-", " ", "-", " ", "0">>,
     <<"8", " ", "w", " ", "-", " ", "-", " ", "0", " ", "1", " ", "1">>,
     <<"4", "k", "3", "/", "8", "/", "8", "/", "8", "/", "8", "/", "8", "/",
       "4", "P", "3", "/", "4", "K", "3", " ", "w", " ", "-", " ", "-", " ",
       "0">>,
     <<"4", "k", "3", "/", "8", "/", "8", "/", "8", "/", "8", "/", "8", "/",
       "4", "P", "3", "/", "4", "K", "3", " ", "w", " ", "-", " ", "-", " ",
       "0", " ", "1", " ", "1">>}

FenInputs == FenSixFields \cup FenSpaced \cup FenMiscounted

\* "r3k2r/8/8/8/8/8/8/R3K2R w KQkq - 0 1"
FenCastle ==
    <<"r", "3", "k", "2", "r", "/", "8", "/", "8", "/", "8", "/", "8", "/",
    "8", "/", "8", "/", "R", "3", "K", "2", "R", " ", "w", " ", "K", "Q", "k",
    "q", " ", "-", " ", "0", " ", "1">>

\* "4k3/P2p4/8/4P3/8/8/8/4K3 b - - 3 10"
FenDoublePush ==
    <<"4", "k", "3", "/", "P", "2", "p", "4", "/", "8", "/", "4", "P", "3",
    "/", "8", "/", "8", "/", "8", "/", "4", "K", "3", " ", "b", " ", "-", " ",
    "-", " ", "3", " ", "1", "0">>

\* "4k3/8/8/3pP3/8/8/8/4K3 w - d6 0 2"
FenEnPassant ==
    <<"4", "k", "3", "/", "8", "/", "8", "/", "3", "p", "P", "3", "/", "8",
    "/", "8", "/", "8", "/", "4", "K", "3", " ", "w", " ", "-", " ", "d", "6",
    " ", "0", " ", "2">>

\* "4k3/8/8/8/3Pp3/8/7p/4K3 b - d3 7 5"
FenBlackEnPassant ==
    <<"4", "k", "3", "/", "8", "/", "8", "/", "8", "/", "3", "P", "p", "3",
    "/", "8", "/", "7", "p", "/", "4", "K", "3", " ", "b", " ", "-", " ", "d",
    "3", " ", "7", " ", "5">>

\* "4k3/8/8/8/8/8/4P3/4K3 w - e3 0 1"
FenEpOnPush ==
    <<"4", "k", "3", "/", "8", "/", "8", "/", "8", "/", "8", "/", "8", "/",
    "4", "P", "3", "/", "4", "K", "3", " ", "w", " ", "-", " ", "e", "3", " ",
    "0", " ", "1">>

\* "r3k2r/8/8/8/8/8/8/R3K2R b Kq - 4 9"
FenCastleBlack ==
    <<"r", "3", "k", "2", "r", "/", "8", "/", "8", "/", "8", "/", "8", "/",
    "8", "/", "8", "/", "R", "3", "K", "2", "R", " ", "b", " ", "K", "q", " ",
    "-", " ", "4", " ", "9">>

\* "4k3/8/8/8/8/8/4P3/4K3 w - d3 0 1"
FenEpNoPawn ==
    <<"4", "k", "3", "/", "8", "/", "8", "/", "8", "/", "8", "/", "8", "/",
    "4", "P", "3", "/", "4", "K", "3", " ", "w", " ", "-", " ", "d", "3",
    " ", "0", " ", "1">>

\* "4k3/1P6/8/8/8/8/8/4K3 w - a8 0 1"
FenEpPromotion ==
    <<"4", "k", "3", "/", "1", "P", "6", "/", "8", "/", "8", "/", "8", "/",
    "8", "/", "8", "/", "4", "K", "3", " ", "w", " ", "-", " ", "a", "8",
    " ", "0", " ", "1">>

\* "1r2k3/8/8/8/8/8/8/R3K3 w Q - 0 1"
FenCastleAttack ==
    <<"1", "r", "2", "k", "3", "/", "8", "/", "8", "/", "8", "/", "8", "/",
    "8", "/", "8", "/", "R", "3", "K", "3", " ", "w", " ", "Q", " ", "-",
    " ", "0", " ", "1">>

\* "7k/8/6K1/8/8/8/5Q2/8 w - - 0 1"
FenMate ==
    <<"7", "k", "/", "8", "/", "6", "K", "1", "/", "8", "/", "8", "/", "8",
    "/", "5", "Q", "2", "/", "8", " ", "w", " ", "-", " ", "-", " ", "0",
    " ", "1">>

\* "4k3/3p4/8/2P1P3/8/8/8/4K3 b - - 0 1"
FenTwoCapturers ==
    <<"4", "k", "3", "/", "3", "p", "4", "/", "8", "/", "2", "P", "1", "P",
    "3", "/", "8", "/", "8", "/", "8", "/", "4", "K", "3", " ", "b", " ",
    "-", " ", "-", " ", "0", " ", "1">>

\* "4k3/8/8/N7/8/8/8/N1N1K3 w - - 0 1"
FenKnights ==
    <<"4", "k", "3", "/", "8", "/", "8", "/", "N", "7", "/", "8", "/", "8",
    "/", "8", "/", "N", "1", "N", "1", "K", "3", " ", "w", " ", "-", " ",
    "-", " ", "0", " ", "1">>

\* "4k3/8/8/8/8/8/8/4K3 w - - 0 1"
FenKings ==
    <<"4", "k", "3", "/", "8", "/", "8", "/", "8", "/", "8", "/", "8", "/",
    "8", "/", "4", "K", "3", " ", "w", " ", "-", " ", "-", " ", "0", " ",
    "1">>

\* "rnbqkbnr/pppppppp/8/8/8/8/PPPPPPPP/RNBQKBNR w KQkq - 0 1"
FenStart ==
    <<"r", "n", "b", "q", "k", "b", "n", "r", "/", "p", "p", "p", "p", "p",
    "p", "p", "p", "/", "8", "/", "8", "/", "8", "/", "8", "/", "P", "P",
    "P", "P", "P", "P", "P", "P", "/", "R", "N", "B", "Q", "K", "B", "N",
    "R", " ", "w", " ", "K", "Q", "k", "q", " ", "-", " ", "0", " ", "1">>

\* "8/8/8/8/8/8/4P3/R6R w KQ - 0 1"
FenNoKings ==
    <<"8", "/", "8", "/", "8", "/", "8", "/", "8", "/", "8", "/", "4", "P",
    "3", "/", "R", "6", "R", " ", "w", " ", "K", "Q", " ", "-", " ", "0",
    " ", "1">>

\* "8/8/8/8/8/8/8/8 w KQkq e4 0 1"
FenEmpty ==
    <<"8", "/", "8", "/", "8", "/", "8", "/", "8", "/", "8", "/", "8", "/",
    "8", " ", "w", " ", "K", "Q", "k", "q", " ", "e", "4", " ", "0", " ",
    "1">>

\* "4k3/8/8/8/Pp6/8/8/4K3 b - a3 0 1"
FenEpEdge ==
    <<"4", "k", "3", "/", "8", "/", "8", "/", "8", "/", "P", "p", "6", "/",
    "8", "/", "8", "/", "4", "K", "3", " ", "b", " ", "-", " ", "a", "3",
    " ", "0", " ", "1">>

\* "8/8/8/8/8/3p4/4P3/4K3 b - e2 0 1"
FenEpOccupied ==
    <<"8", "/", "8", "/", "8", "/", "8", "/", "8", "/", "3", "p", "4", "/",
    "4", "P", "3", "/", "4", "K", "3", " ", "b", " ", "-", " ", "e", "2",
    " ", "0", " ", "1">>

\* "4k3/8/8/8/8/8/8/1K5R w KQ - 0 1"
FenKingOffHome ==
    <<"4", "k", "3", "/", "8", "/", "8", "/", "8", "/", "8", "/", "8", "/",
    "8", "/", "1", "K", "5", "R", " ", "w", " ", "K", "Q", " ", "-", " ",
    "0", " ", "1">>

\* the positions games are started from
StartFens ==
    {FenCastle, FenCastleBlack, FenDoublePush, FenEnPassant, FenBlackEnPassant,
     FenEpOnPush, FenEpNoPawn, FenEpPromotion, FenCastleAttack, FenMate,
     FenTwoCapturers, FenKnights}

\* positions no game of chess reaches: no kings, no pieces, castling rights
\* without rook or with the king off its home square, en-passant squares that
\* are occupied, on the edge file or on the last rank
AnyBoardFens ==
    {FenNoKings, FenEmpty, FenEpEdge, FenEpOccupied, FenKingOffHome,
     FenEpPromotion}

\* the positions the two workers share
WorkerFens == {FenCastle, FenEnPassant, FenBlackEnPassant}

-----------------------------------------------------------------------------
(* SpecFen: a text is parsed, and the Board it yields is serialised        *)

NoFenRun ==
    /\ fen = <<>>
    /\ fenPc = "off"
    /\ parsed = [board |-> NilBoard, err |-> NoErr]
    /\ out = <<>>

NoGame ==
    /\ b = NilBoard
    /\ prev = NilBoard
    /\ last = NullMove
    /\ plies = 0
    /\ status = NoStatus

Workers == {1, 2}

NoWorkers ==
    /\ shared = NilBoard
    /\ wpc = [w \in Workers |-> "off"]
    /\ wmove = [w \in Workers |-> NullMove]
    /\ frame = [w \in Workers |-> NilBoard]
    /\ wep = [w \in Workers |-> NoSquare]
    /\ result = [w \in Workers |-> NilBoard]

fenVars == <<fen, fenPc, parsed, out>>
gameVars == <<b, prev, last, plies, status>>
workerVars == <<shared, wpc, wmove, frame, wep, result>>

\* the statistics of a perft run that has counted nothing
ZeroStats ==
    [Nodes |-> 0, Captures |-> 0, EnPassant |-> 0, Castles |-> 0,
     Promotions |-> 0, Checks |-> 0, Checkmates |-> 0]

NoMaterial ==
    /\ mat = NilBoard
    /\ matPc = "off"
    /\ insufficient = FALSE

NoPerft ==
    /\ depth = 0
    /\ stack = <<>>
    /\ stats = ZeroStats
    /\ perftPc = "off"

materialVars == <<mat, matPc, insufficient>>
perftVars == <<depth, stack, stats, perftPc>>

\* no coordinates are being packed
NoCoord ==
    coord = [pc |-> "off", file |-> 0, rank |-> 0, sq |-> NoSquare,
             again |-> NoSquare, text |-> <<>>, back |-> NoSquare]

\* no character is being looked up
NoGlyph ==
    glyph = [pc |-> "off", c |-> "", piece |-> NoPiece, rune |-> "",
             parsed |-> [board |-> NilBoard, err |-> NoErr]]

tuiVars == <<model, ticks, handled>>

\* the terminal program is not running
NoTui ==
    /\ model = [state |-> "off"]
    /\ ticks = 0
    /\ handled = [played |-> 0, ignored |-> FALSE, quit |-> TRUE]

InitFen ==
    /\ fen \in FenInputs
    /\ fenPc = "input"
    /\ parsed = [board |-> NilBoard, err |-> NoErr]
    /\ out = <<>>
    /\ start = NilBoard
    /\ NoGame
    /\ NoWorkers
    /\ NoMaterial
    /\ NoCoord
    /\ NoGlyph
    /\ NoTui
    /\ NoPerft

\* board, err := ParseFen(fen)
DoParseFen ==
    /\ fenPc = "input"
    /\ parsed' = ParseFen(fen)
    /\ fenPc' = "parsed"
    /\ UNCHANGED <<glyph, tuiVars, coord, fen, out, start, gameVars, workerVars, materialVars, perftVars>>

\* board.Fen(), for a board ParseFen returned
DoFen ==
    /\ fenPc = "parsed"
    /\ parsed.err = NoErr
    /\ out' = Fen(parsed.board)
    /\ fenPc' = "serialized"
    /\ UNCHANGED <<glyph, tuiVars, coord, fen, parsed, start, gameVars, workerVars, materialVars, perftVars>>

NextFen == DoParseFen \/ DoFen

SpecFen == InitFen /\ [][NextFen]_vars

-----------------------------------------------------------------------------
(* Spec: a game is played from a parsed position, one MakeMove at a time   *)

MaxPlies == 2

Init ==
    /\ \E f \in StartFens : b = ParseFen(f).board
    /\ start = b
    /\ prev = NilBoard
    /\ last = NullMove
    /\ plies = 0
    /\ status = IsCheckOrMate(b)
    /\ NoFenRun
    /\ NoWorkers
    /\ NoMaterial
    /\ NoCoord
    /\ NoGlyph
    /\ NoTui
    /\ NoPerft

\* board = board.MakeMove(move), for a move of board.LegalMoves(), and then
\* check, mate := board.IsCheckOrMate()
Play ==
    /\ plies < MaxPlies
    /\ \E m \in LegalMoves(b) :
          /\ b' = MakeMove(b, m)
          /\ last' = m
          /\ status' = IsCheckOrMate(MakeMove(b, m))
    /\ prev' = b
    /\ plies' = plies + 1
    /\ UNCHANGED <<glyph, tuiVars, coord, start, fenVars, workerVars, materialVars, perftVars>>

\* board = board.MakeMove(NullMove), and then check, mate := board.IsCheckOrMate()
PlayNull ==
    /\ plies < MaxPlies
    /\ b' = MakeMove(b, NullMove)
    /\ last' = NullMove
    /\ status' = IsCheckOrMate(MakeMove(b, NullMove))
    /\ prev' = b
    /\ plies' = plies + 1
    /\ UNCHANGED <<glyph, tuiVars, coord, start, fenVars, workerVars, materialVars, perftVars>>

Next == Play \/ PlayNull

Spec == Init /\ [][Next]_vars

\* a game started from any Board ParseFen returns
InitAnyBoard ==
    /\ \E f \in AnyBoardFens : b = ParseFen(f).board
    /\ start = b
    /\ prev = NilBoard
    /\ last = NullMove
    /\ plies = 0
    /\ status = IsCheckOrMate(b)
    /\ NoFenRun
    /\ NoWorkers
    /\ NoMaterial
    /\ NoCoord
    /\ NoGlyph
    /\ NoTui
    /\ NoPerft

SpecAnyBoard == InitAnyBoard /\ [][Next]_vars

\* the standard starting position, and positions of a game from it in which
\* kings and rooks have not moved and the pieces around them are gone
CastleFens == {FenStart, FenCastle, FenCastleBlack, FenCastleAttack}

\* a game started from the standard starting position or later in such a game
InitCastle ==
    /\ \E f \in CastleFens : b = ParseFen(f).board
    /\ start = b
    /\ prev = NilBoard
    /\ last = NullMove
    /\ plies = 0
    /\ status = IsCheckOrMate(b)
    /\ NoFenRun
    /\ NoWorkers
    /\ NoMaterial
    /\ NoCoord
    /\ NoGlyph
    /\ NoTui
    /\ NoPerft

\* legal moves only: a side that passes while in check can lose its king
NextLegal == Play

SpecCastle == InitCastle /\ [][NextLegal]_vars

\* "4k3/8/8/3b4/8/8/8/2B1K3 w - - 0 1"
FenBishops ==
    <<"4", "k", "3", "/", "8", "/", "8", "/", "3", "b", "4", "/", "8", "/",
    "8", "/", "8", "/", "2", "B", "1", "K", "3", " ", "w", " ", "-", " ",
    "-", " ", "0", " ", "1">>

\* "4k1n1/5n2/8/8/8/4B3/8/2B1K3 w - - 0 1"
FenSameBishops ==
    <<"4", "k", "1", "n", "1", "/", "5", "n", "2", "/", "8", "/", "8", "/",
    "8", "/", "4", "B", "3", "/", "8", "/", "2", "B", "1", "K", "3", " ",
    "w", " ", "-", " ", "-", " ", "0", " ", "1">>

\* "4k3/8/8/3b4/8/8/6N1/2B1K3 b - - 0 1"
FenMinorToTake ==
    <<"4", "k", "3", "/", "8", "/", "8", "/", "3", "b", "4", "/", "8", "/",
    "8", "/", "6", "N", "1", "/", "2", "B", "1", "K", "3", " ", "b", " ",
    "-", " ", "-", " ", "0", " ", "1">>

\* "4k3/8/8/4n3/8/3N4/8/4K3 w - - 0 1"
FenKnightEach ==
    <<"4", "k", "3", "/", "8", "/", "8", "/", "4", "n", "3", "/", "8", "/",
    "3", "N", "4", "/", "8", "/", "4", "K", "3", " ", "w", " ", "-", " ",
    "-", " ", "0", " ", "1">>

\* endgames of kings and minor pieces: a bishop each, two bishops on squares
\* of one colour against two knights, bishop and knight against a bishop
\* that can take the knight, a knight each
EndgameFens == {FenBishops, FenSameBishops, FenMinorToTake, FenKnightEach}

\* a game started in an endgame of kings and minor pieces
InitEndgame ==
    /\ \E f \in EndgameFens : b = ParseFen(f).board
    /\ start = b
    /\ prev = NilBoard
    /\ last = NullMove
    /\ plies = 0
    /\ status = IsCheckOrMate(b)
    /\ NoFenRun
    /\ NoWorkers
    /\ NoMaterial
    /\ NoCoord
    /\ NoGlyph
    /\ NoTui
    /\ NoPerft

SpecEndgame == InitEndgame /\ [][Next]_vars

-----------------------------------------------------------------------------
(* SpecWorkers: two workers call MakeMove on one shared Board, step by step *)

\* a pointer receiver, func (b *Board) MakeMove: the callee writes the caller's Board
ReceiverIsPointer == FALSE

\* func (b Board) MakeMove: the receiver is a value, so b is the callee's own copy
ReceiverIsCopy == TRUE

\* the Board that b names inside worker w's call
Load(w) == IF ReceiverIsCopy THEN frame[w] ELSE shared

\* an assignment to b inside worker w's call
Store(w, board) ==
    IF ReceiverIsCopy
    THEN frame' = [frame EXCEPT ![w] = board] /\ shared' = shared
    ELSE shared' = board /\ frame' = frame

InitWorkers ==
    /\ \E f \in WorkerFens : shared = ParseFen(f).board
    /\ start = shared
    /\ wpc = [w \in Workers |-> "idle"]
    /\ wmove = [w \in Workers |-> NullMove]
    /\ frame = [w \in Workers |-> NilBoard]
    /\ wep = [w \in Workers |-> NoSquare]
    /\ result = [w \in Workers |-> NilBoard]
    /\ NoFenRun
    /\ NoGame
    /\ NoMaterial
    /\ NoCoord
    /\ NoGlyph
    /\ NoTui
    /\ NoPerft

\* worker w calls shared.MakeMove(m): the receiver is bound
Enter(w) ==
    /\ wpc[w] = "idle"
    /\ \E m \in LegalMoves(shared) \cup {NullMove} : wmove' = [wmove EXCEPT ![w] = m]
    /\ frame' = [frame EXCEPT ![w] = shared]
    /\ wpc' = [wpc EXCEPT ![w] = "entered"]
    /\ UNCHANGED <<glyph, tuiVars, coord, shared, wep, result, start, fenVars, gameVars, materialVars, perftVars>>

\* lines 186-190 of worker w's call
ResetStep(w) ==
    /\ wpc[w] = "entered"
    /\ wep' = [wep EXCEPT ![w] = Load(w).EpSquare]
    /\ Store(w, MakeMoveReset(Load(w)))
    /\ wpc' = [wpc EXCEPT ![w] = "reset"]
    /\ UNCHANGED <<glyph, tuiVars, coord, wmove, result, start, fenVars, gameVars, materialVars, perftVars>>

\* lines 192-252 of worker w's call, and its return &b
ApplyStep(w) ==
    /\ wpc[w] = "reset"
    /\ Store(w, MakeMoveApply(Load(w), wmove[w], wep[w]))
    /\ result' = [result EXCEPT ![w] = MakeMoveApply(Load(w), wmove[w], wep[w])]
    /\ wpc' = [wpc EXCEPT ![w] = "done"]
    /\ UNCHANGED <<glyph, tuiVars, coord, wmove, wep, start, fenVars, gameVars, materialVars, perftVars>>

NextWorkers == \E w \in Workers : Enter(w) \/ ResetStep(w) \/ ApplyStep(w)

SpecWorkers == InitWorkers /\ [][NextWorkers]_vars

-----------------------------------------------------------------------------
(* SpecMaterial: HasInsufficientMaterial is called on a Board              *)

\* the squares extra pieces are put on: c3 (dark), f3 and d3 (light) for
\* White, c6 (light), f6 and d6 (dark) for Black
WhiteSlots == <<Square(2, 2), Square(5, 2), Square(3, 2)>>
BlackSlots == <<Square(2, 5), Square(5, 5), Square(3, 5)>>

\* what the first two squares of a side may hold, and what the third may
SlotTypes == {NoPiece, Pawn, Knight, Bishop, Rook, Queen}
ThirdSlotTypes == {NoPiece, Knight, Bishop}

\* the piece of a type and colour, NoPiece for no type
Colored(color, t) == IF t = NoPiece THEN NoPiece ELSE color + t

\* the two kings with the given pieces on the squares of White and of Black
MaterialBoard(w, bl) ==
    LET base == ParseFen(FenKings).board
    IN  [base EXCEPT !.Piece =
            [sq \in Squares |->
                IF \E i \in 1..3 : WhiteSlots[i] = sq
                THEN Colored(White, w[CHOOSE i \in 1..3 : WhiteSlots[i] = sq])
                ELSE IF \E i \in 1..3 : BlackSlots[i] = sq
                THEN Colored(Black, bl[CHOOSE i \in 1..3 : BlackSlots[i] = sq])
                ELSE base.Piece[sq]]]

MaterialBoards ==
    {MaterialBoard(<<w1, w2, w3>>, <<b1, b2, b3>>) :
        w1 \in SlotTypes, w2 \in SlotTypes, w3 \in ThirdSlotTypes,
        b1 \in SlotTypes, b2 \in SlotTypes, b3 \in ThirdSlotTypes}

InitMaterial ==
    /\ mat \in MaterialBoards
    /\ matPc = "ready"
    /\ insufficient = FALSE
    /\ start = NilBoard
    /\ NoFenRun
    /\ NoGame
    /\ NoWorkers
    /\ NoPerft
    /\ NoCoord
    /\ NoGlyph
    /\ NoTui

\* insufficient := board.HasInsufficientMaterial()
DoHasInsufficientMaterial ==
    /\ matPc = "ready"
    /\ insufficient' = HasInsufficientMaterial(mat)
    /\ matPc' = "done"
    /\ UNCHANGED <<glyph, tuiVars, coord, mat, start, fenVars, gameVars, workerVars, perftVars>>

NextMaterial == DoHasInsufficientMaterial

SpecMaterial == InitMaterial /\ [][NextMaterial]_vars

-----------------------------------------------------------------------------
(* SpecSquare: a file and a rank are packed into a square, the square is   *)
(* unpacked and packed again, written as text and read back                *)

\* files and ranks are drawn from 7 - MaxCoord .. MaxCoord
MaxCoord == 9

InitSquare ==
    /\ \E file \in (7 - MaxCoord)..MaxCoord, rank \in (7 - MaxCoord)..MaxCoord :
          coord = [pc |-> "input", file |-> file, rank |-> rank, sq |-> NoSquare,
                   again |-> NoSquare, text |-> <<>>, back |-> NoSquare]
    /\ start = NilBoard
    /\ NoFenRun
    /\ NoGame
    /\ NoWorkers
    /\ NoMaterial
    /\ NoPerft
    /\ NoGlyph
    /\ NoTui

\* sq := Square(file, rank)
DoSquare ==
    /\ coord.pc = "input"
    /\ coord' = [coord EXCEPT !.pc = "packed", !.sq = Square(coord.file, coord.rank)]
    /\ UNCHANGED <<glyph, tuiVars, start, fenVars, gameVars, workerVars, materialVars, perftVars>>

\* again := Square(sq.File(), sq.Rank())
DoRepack ==
    /\ coord.pc = "packed"
    /\ coord' = [coord EXCEPT !.pc = "repacked",
                              !.again = Square(File(coord.sq), Rank(coord.sq))]
    /\ UNCHANGED <<glyph, tuiVars, start, fenVars, gameVars, workerVars, materialVars, perftVars>>

\* text := sq.String()
DoString ==
    /\ coord.pc = "repacked"
    /\ coord' = [coord EXCEPT !.pc = "named", !.text = SqString(coord.sq)]
    /\ UNCHANGED <<glyph, tuiVars, start, fenVars, gameVars, workerVars, materialVars, perftVars>>

\* back := squareFromString(text)
DoSquareFromString ==
    /\ coord.pc = "named"
    /\ coord' = [coord EXCEPT !.pc = "read", !.back = squareFromString(coord.text)]
    /\ UNCHANGED <<glyph, tuiVars, start, fenVars, gameVars, workerVars, materialVars, perftVars>>

NextSquare == DoSquare \/ DoRepack \/ DoString \/ DoSquareFromString

SpecSquare == InitSquare /\ [][NextSquare]_vars

-----------------------------------------------------------------------------
(* SpecPiece: a character is looked up with pieceFromChar, the piece found  *)
(* is written with PieceRunes, and the character is parsed as the content   *)
(* of square a2 of a FEN text                                               *)

\* the characters looked up: all letters, the two filler runes of
\* PieceRunes, digits, the separators of a FEN text and other punctuation
PieceChars ==
    {"A", "B", "C", "D", "E", "F", "G", "H", "I", "J", "K", "L", "M",
     "N", "O", "P", "Q", "R", "S", "T", "U", "V", "W", "X", "Y", "Z",
     "a", "b", "c", "d", "e", "f", "g", "h", "i", "j", "k", "l", "m",
     "n", "o", "p", "q", "r", "s", "t", "u", "v", "w", "x", "y", "z",
     ".", ",", "0", "1", "8", "9", "/", " ", "-", "?", "*", "+"}

\* the position of two kings with the character c first on the second rank,
\* followed by a run of seven empty squares
FenWithPiece(c) == SubSeq(FenKings, 1, 14) \o <<c, "7">> \o SubSeq(FenKings, 16, Len(FenKings))

InitPiece ==
    /\ \E c \in PieceChars :
          glyph = [pc |-> "input", c |-> c, piece |-> NoPiece, rune |-> "",
                   parsed |-> [board |-> NilBoard, err |-> NoErr]]
    /\ start = NilBoard
    /\ NoFenRun
    /\ NoGame
    /\ NoWorkers
    /\ NoMaterial
    /\ NoPerft
    /\ NoCoord
    /\ NoTui

\* piece := pieceFromChar(c)
DoPieceFromChar ==
    /\ glyph.pc = "input"
    /\ glyph' = [glyph EXCEPT !.pc = "looked", !.piece = pieceFromChar(glyph.c)]
    /\ UNCHANGED <<coord, tuiVars, start, fenVars, gameVars, workerVars, materialVars, perftVars>>

\* rune := PieceRunes[piece]
DoPieceRune ==
    /\ glyph.pc = "looked"
    /\ glyph' = [glyph EXCEPT !.pc = "named", !.rune = PieceRunes[glyph.piece + 1]]
    /\ UNCHANGED <<coord, tuiVars, start, fenVars, gameVars, workerVars, materialVars, perftVars>>

\* board, err := ParseFen(text), where text has c for square a2
DoParsePiece ==
    /\ glyph.pc = "named"
    /\ glyph' = [glyph EXCEPT !.pc = "parsed", !.parsed = ParseFen(FenWithPiece(glyph.c))]
    /\ UNCHANGED <<coord, tuiVars, start, fenVars, gameVars, workerVars, materialVars, perftVars>>

NextPiece == DoPieceFromChar \/ DoPieceRune \/ DoParsePiece

SpecPiece == InitPiece /\ [][NextPiece]_vars

-----------------------------------------------------------------------------
(* SpecTui: the terminal program (Bubble Tea).  The runtime delivers one    *)
(* message at a time to model.Update, which returns the next model and a    *)
(* command; makeRandomMove(delay) is the command that delivers one          *)
(* randomMoveMsg after the delay.  The fields of model that only concern    *)
(* the display (moveViewport, width, height, moveDelay) and the inside of   *)
(* the downloader screen are left out.                                      *)

stateMainGame == 0
stateChesscomDownloader == 1

\* at most this many randomMoveMsg are handled while a game is on
MaxMoves == 2

\* at most this many randomMoveMsg ticks are scheduled and not yet delivered
MaxTicks == 2

\* "4k3/8/8/8/8/8/4P3/4K3 w - - 49 60"
FenFifty ==
    <<"4", "k", "3", "/", "8", "/", "8", "/", "8", "/", "8", "/", "8", "/",
    "4", "P", "3", "/", "4", "K", "3", " ", "w", " ", "-", " ", "-", " ",
    "4", "9", " ", "6", "0">>

\* "7k/5Q2/6K1/8/8/8/8/8 b - - 0 1"
FenStalemate ==
    <<"7", "k", "/", "5", "Q", "2", "/", "6", "K", "1", "/", "8", "/", "8",
    "/", "8", "/", "8", "/", "8", " ", "b", " ", "-", " ", "-", " ", "0",
    " ", "1">>

\* "k7/2P5/1K6/8/8/8/8/8 w - - 0 1"
FenPawnMate ==
    <<"k", "7", "/", "2", "P", "5", "/", "1", "K", "6", "/", "8", "/", "8",
    "/", "8", "/", "8", "/", "8", " ", "w", " ", "-", " ", "-", " ", "0",
    " ", "1">>

\* "4k3/8/8/8/8/8/6p1/6K1 w - - 0 1"
FenLastPawn ==
    <<"4", "k", "3", "/", "8", "/", "8", "/", "8", "/", "8", "/", "8", "/",
    "6", "p", "1", "/", "6", "K", "1", " ", "w", " ", "-", " ", "-", " ",
    "0", " ", "1">>

\* the root boards of the games the downloader hands over: mate in one, one
\* half-move short of fifty, stalemate, bare kings, and a capture that leaves
\* bare kings
LoadFens == {FenPawnMate, FenFifty, FenStalemate, FenKings, FenLastPawn}

\* initialModel()
initialModel ==
    [state |-> stateMainGame,
     board |-> ParseFen(FenStart).board,
     moveList |-> <<>>,
     gameOver |-> FALSE,
     checkmate |-> FALSE,
     stalemate |-> FALSE,
     lastMove |-> Move(0, 0, NoPiece),
     autoPlaying |-> TRUE]

\* what Update returns: the next model and whether the command is
\* makeRandomMove(m.moveDelay)
Return(m, tick) == [m |-> m, tick |-> tick]

\* the game is over with these flags
Over(m, checkmate, stalemate) ==
    [m EXCEPT !.gameOver = TRUE, !.checkmate = checkmate, !.stalemate = stalemate]

\* lines 510-519: the move list after the move's text is added
AddToMoveList(m, moveStr) ==
    IF m.board.SideToMove = White
    THEN Append(m.moveList, Itoa(m.board.MoveNr) \o <<".", " ">> \o moveStr)
    ELSE LET lastIdx == Len(m.moveList) - 1
         IN  IF lastIdx >= 0
             THEN [m.moveList EXCEPT ![lastIdx + 1] = @ \o <<" ">> \o moveStr]
             ELSE m.moveList

\* lines 524-552: the game-end tests after the move, for the model that
\* holds the board after the move
AfterMove(played) ==
    LET cm == IsCheckOrMate(played.board)
    IN  IF cm.mate THEN Return(Over(played, cm.check, ~cm.check), FALSE)
        ELSE IF played.board.Rule50 >= 50 THEN Return(Over(played, FALSE, TRUE), FALSE)
        ELSE IF HasInsufficientMaterial(played.board)
        THEN Return(Over(played, FALSE, TRUE), FALSE)
        ELSE Return(played, played.autoPlaying)

\* case randomMoveMsg, lines 494-552: the game is not over yet
PlayMove(m, moves, move) ==
    IF moves = {} \/ HasInsufficientMaterial(m.board)
    THEN LET check == IsCheckOrMate(m.board).check
         IN  Return(Over(m, check, ~check \/ HasInsufficientMaterial(m.board)), FALSE)
    ELSE CHOOSE r \in {AfterMove(played) :
                         played \in {[m EXCEPT !.moveList = AddToMoveList(m, SanAmong(m.board, moves, move)),
                                               !.board = MakeMove(m.board, move),
                                               !.lastMove = move]}} : TRUE

\* case randomMoveMsg with the next tick scheduled though the game is over
PlayRandomMoveTicksWhenOver(m, moves, move) ==
    IF m.gameOver THEN Return(m, m.autoPlaying) ELSE PlayMove(m, moves, move)

\* Update, case randomMoveMsg (lines 488-552), for the legal moves of the
\* board and the move rand.Intn picks among them
PlayRandomMove(m, moves, move) ==
    IF m.gameOver THEN Return(m, FALSE) ELSE PlayMove(m, moves, move)

\* the moves rand.Intn can pick; no move is picked when the game ends first
Picks(m, moves) ==
    IF m.gameOver \/ moves = {} \/ HasInsufficientMaterial(m.board)
    THEN {NullMove} ELSE moves

\* the results Update can return for a randomMoveMsg in the main game, one
\* for each move rand.Intn can pick
RandomMoveResults(m) ==
    UNION {{PlayRandomMove(m, moves, move) : move \in Picks(m, moves)} :
             moves \in {IF m.gameOver THEN {} ELSE LegalMoves(m.board)}}

\* lines 441-454 and 562-572: the model with the downloaded game's root board
LoadGame(m, board) ==
    [m EXCEPT !.board = board, !.moveList = <<>>, !.gameOver = FALSE,
              !.checkmate = FALSE, !.stalemate = FALSE, !.state = stateMainGame]

\* the history after a randomMoveMsg is handled by the model m
AfterRandomMove(m) ==
    IF m.state = stateMainGame /\ m.gameOver
    THEN [handled EXCEPT !.ignored = TRUE]
    ELSE IF m.state = stateMainGame
    THEN [handled EXCEPT !.played = @ + 1]
    ELSE handled

\* the history after a new board is set
AfterNewBoard == [handled EXCEPT !.ignored = FALSE]

\* tea.NewProgram(initialModel()) has run Init(), which returned
\* makeRandomMove(m.moveDelay)
InitTui ==
    /\ model = initialModel
    /\ ticks = 1
    /\ handled = [played |-> 0, ignored |-> FALSE, quit |-> FALSE]
    /\ start = NilBoard
    /\ NoFenRun
    /\ NoGame
    /\ NoWorkers
    /\ NoMaterial
    /\ NoPerft
    /\ NoCoord
    /\ NoGlyph

\* a tick fires and its randomMoveMsg is handled: in the main game by the
\* case randomMoveMsg, on the downloader screen by chesscomModel.Update,
\* after which the program stays there or, when that returned no command
\* (tea.Batch of the sub-components' commands, which the library may or may
\* not return as nil), goes back to the main game (lines 554-585)
Tick ==
    /\ ~handled.quit
    /\ ticks > 0
    /\ IF model.state = stateMainGame
       THEN /\ model.gameOver \/ handled.played < MaxMoves
            /\ \E r \in RandomMoveResults(model) :
                  /\ model' = r.m
                  /\ ticks' = ticks - 1 + (IF r.tick THEN 1 ELSE 0)
       ELSE /\ \E back \in BOOLEAN :
                  model' = IF back THEN [model EXCEPT !.state = stateMainGame] ELSE model
            /\ ticks' = ticks - 1
    /\ handled' = AfterRandomMove(model)
    /\ UNCHANGED <<glyph, coord, start, fenVars, gameVars, workerVars, materialVars, perftVars>>

\* the key "p" in the main game (lines 471-475)
KeyP ==
    /\ ~handled.quit
    /\ model.state = stateMainGame
    /\ ~model.autoPlaying => ticks < MaxTicks
    /\ model' = [model EXCEPT !.autoPlaying = ~model.autoPlaying]
    /\ ticks' = IF model'.autoPlaying THEN ticks + 1 ELSE ticks
    /\ UNCHANGED <<handled, glyph, coord, start, fenVars, gameVars, workerVars, materialVars, perftVars>>

\* the keys " " and "enter" in the main game (lines 464-470): a new game when
\* the game is over, one randomMoveMsg handled at once when auto-play is
\* paused, and else nothing but scrolling
KeyEnter ==
    /\ ~handled.quit
    /\ model.state = stateMainGame
    /\ IF model.gameOver
       THEN /\ model' = initialModel
            /\ ticks' = ticks
            /\ handled' = AfterNewBoard
       ELSE IF ~model.autoPlaying
       THEN /\ handled.played < MaxMoves
            /\ \E r \in RandomMoveResults(model) :
                  /\ model' = r.m
                  /\ ticks' = ticks + (IF r.tick THEN 1 ELSE 0)
            /\ handled' = AfterRandomMove(model)
       ELSE UNCHANGED <<model, ticks, handled>>
    /\ UNCHANGED <<glyph, coord, start, fenVars, gameVars, workerVars, materialVars, perftVars>>

\* the key "d" in the main game (lines 476-480): over to the downloader screen
KeyD ==
    /\ ~handled.quit
    /\ model.state = stateMainGame
    /\ model' = [model EXCEPT !.state = stateChesscomDownloader]
    /\ UNCHANGED <<ticks, handled, glyph, coord, start, fenVars, gameVars, workerVars, materialVars, perftVars>>

\* the keys "q" and "ctrl+c" in the main game (lines 462-463): tea.Quit ends
\* the program
KeyQ ==
    /\ ~handled.quit
    /\ model.state = stateMainGame
    /\ handled' = [handled EXCEPT !.quit = TRUE]
    /\ UNCHANGED <<model, ticks, glyph, coord, start, fenVars, gameVars, workerVars, materialVars, perftVars>>

\* the boards ParseFen returns for LoadFens
LoadBoards == {ParseFen(f).board : f \in LoadFens}

\* a loadGameMsg with a root board arrives on the downloader screen
\* (lines 441-454)
LoadGameMsg ==
    /\ ~handled.quit
    /\ model.state = stateChesscomDownloader
    /\ \E board \in LoadBoards : model' = LoadGame(model, board)
    /\ handled' = AfterNewBoard
    /\ UNCHANGED <<ticks, glyph, coord, start, fenVars, gameVars, workerVars, materialVars, perftVars>>

\* a key or a fetch result is handled on the downloader screen and
\* chesscomModel.Update returns no command: back to the main game
\* (lines 554-585; with a command the program stays and no field changes)
DownloaderBack ==
    /\ ~handled.quit
    /\ model.state = stateChesscomDownloader
    /\ model' = [model EXCEPT !.state = stateMainGame]
    /\ UNCHANGED <<ticks, handled, glyph, coord, start, fenVars, gameVars, workerVars, materialVars, perftVars>>

NextTui == Tick \/ KeyP \/ KeyEnter \/ KeyD \/ KeyQ \/ LoadGameMsg \/ DownloaderBack

SpecTui == InitTui /\ [][NextTui]_vars

-----------------------------------------------------------------------------
(* SpecPerft: TestPerft runs perftWithStats from the starting position      *)

maxTestDepth == 4

\* PerftExpected, depths 0 to 4, indexed from 1 here
PerftExpected ==
    <<[ZeroStats EXCEPT !.Nodes = 1],
      [ZeroStats EXCEPT !.Nodes = 20],
      [ZeroStats EXCEPT !.Nodes = 400],
      [ZeroStats EXCEPT !.Nodes = 8902, !.Captures = 34, !.Checks = 12],
      [ZeroStats EXCEPT !.Nodes = 197281, !.Captures = 1576, !.Checks = 469,
                        !.Checkmates = 8]>>

\* lines 207-251: what the loop of a call with depth == 1 adds to the
\* statistics (the discovery and double check counters, validated from depth
\* 5 on, are left out)
LastPlyStats(board) ==
    LET rows == {[move |-> m, st |-> IsCheckOrMate(MakeMove(board, m))] :
                    m \in LegalMoves(board)}
    IN  [Nodes |-> Cardinality(rows),
         Captures |-> Cardinality({r \in rows : board.Piece[r.move.To] /= NoPiece}),
         EnPassant |-> Cardinality({r \in rows :
                          /\ r.move.To = board.EpSquare
                          /\ Type(board.Piece[r.move.From]) = Pawn}),
         Castles |-> Cardinality({r \in rows :
                          /\ Type(board.Piece[r.move.From]) = King
                          /\ \/ File(r.move.From) - File(r.move.To) > 1
                             \/ File(r.move.To) - File(r.move.From) > 1}),
         Promotions |-> Cardinality({r \in rows : r.move.Promotion /= NoPiece}),
         Checks |-> Cardinality({r \in rows : r.st.check}),
         Checkmates |-> Cardinality({r \in rows : r.st.check /\ r.st.mate})]

\* the sum of two PerftStats
AddStats(x, y) ==
    [Nodes |-> x.Nodes + y.Nodes,
     Captures |-> x.Captures + y.Captures,
     EnPassant |-> x.EnPassant + y.EnPassant,
     Castles |-> x.Castles + y.Castles,
     Promotions |-> x.Promotions + y.Promotions,
     Checks |-> x.Checks + y.Checks,
     Checkmates |-> x.Checkmates + y.Checkmates]

\* a call of perftWithStats(board, depth, stats) that has not run yet
Call(board, d) == [board |-> board, depth |-> d, pc |-> "call", moves |-> {}]

\* the innermost call, and the stack once it has returned
Top == stack[Len(stack)]
Returned == SubSeq(stack, 1, Len(stack) - 1)

\* "done" once the outermost call returns
AfterReturn == IF Len(stack) = 1 THEN "done" ELSE "run"

InitPerft ==
    /\ depth \in 0..maxTestDepth
    /\ stack = <<Call(ParseFen(FenStart).board, depth)>>
    /\ stats = ZeroStats
    /\ perftPc = "run"
    /\ start = NilBoard
    /\ NoFenRun
    /\ NoGame
    /\ NoWorkers
    /\ NoMaterial
    /\ NoCoord
    /\ NoGlyph
    /\ NoTui

\* lines 201-204: depth == 0
PerftLeaf ==
    /\ perftPc = "run"
    /\ Top.pc = "call"
    /\ Top.depth = 0
    /\ stats' = [stats EXCEPT !.Nodes = @ + 1]
    /\ stack' = Returned
    /\ perftPc' = AfterReturn
    /\ UNCHANGED <<glyph, tuiVars, coord, depth, start, fenVars, gameVars, workerVars, materialVars>>

\* lines 206-252: depth == 1, the whole loop over the moves
PerftLastPly ==
    /\ perftPc = "run"
    /\ Top.pc = "call"
    /\ Top.depth = 1
    /\ stats' = AddStats(stats, LastPlyStats(Top.board))
    /\ stack' = Returned
    /\ perftPc' = AfterReturn
    /\ UNCHANGED <<glyph, tuiVars, coord, depth, start, fenVars, gameVars, workerVars, materialVars>>

\* line 206: moves := b.LegalMoves(), depth > 1
PerftExpand ==
    /\ perftPc = "run"
    /\ Top.pc = "call"
    /\ Top.depth > 1
    /\ stack' = [stack EXCEPT ![Len(stack)] =
                    [@ EXCEPT !.pc = "loop", !.moves = LegalMoves(Top.board)]]
    /\ UNCHANGED <<glyph, tuiVars, coord, depth, stats, perftPc, start, fenVars, gameVars, workerVars, materialVars>>

\* lines 254-257: the next move of the loop is made and perftWithStats is
\* called on the new Board (the counts do not depend on the order of the moves)
PerftRecurse ==
    /\ perftPc = "run"
    /\ Top.pc = "loop"
    /\ Top.moves /= {}
    /\ LET m == CHOOSE x \in Top.moves : TRUE
       IN  stack' = Append([stack EXCEPT ![Len(stack)] = [@ EXCEPT !.moves = @ \ {m}]],
                           Call(MakeMove(Top.board, m), Top.depth - 1))
    /\ UNCHANGED <<glyph, tuiVars, coord, depth, stats, perftPc, start, fenVars, gameVars, workerVars, materialVars>>

\* line 258: the loop is over and the call returns
PerftReturn ==
    /\ perftPc = "run"
    /\ Top.pc = "loop"
    /\ Top.moves = {}
    /\ stack' = Returned
    /\ perftPc' = AfterReturn
    /\ UNCHANGED <<glyph, tuiVars, coord, depth, stats, start, fenVars, gameVars, workerVars, materialVars>>

NextPerft == PerftLeaf \/ PerftLastPly \/ PerftExpand \/ PerftRecurse \/ PerftReturn

SpecPerft == InitPerft /\ [][NextPerft]_vars

-----------------------------------------------------------------------------
(* The FEN round trip                                                      *)

\* a counter as strconv.Itoa writes it: no '+', no leading zero, no "-0"
IsPlainNumber(s) ==
    LET digits == IF Len(s) >= 1 /\ s[1] = "-" THEN Tail(s) ELSE s
    IN  \/ s = <<"0">>
        \/ /\ Len(digits) >= 1
           /\ \A i \in 1..Len(digits) : IsDigit(digits[i])
           /\ digits[1] /= "0"

\* castling letters as Board.Fen writes them: in the order K, Q, k, q, none twice
IsOrderedCastling(s) ==
    \/ s = <<"-">>
    \/ /\ Len(s) >= 1
       /\ \A i \in 1..Len(s) : IndexOf(<<"K", "Q", "k", "q">>, s[i]) /= 0
       /\ \A i \in 1..(Len(s) - 1) :
             IndexOf(<<"K", "Q", "k", "q">>, s[i]) < IndexOf(<<"K", "Q", "k", "q">>, s[i + 1])

\* a text in the form Board.Fen writes: six fields, one space between two
\* fields and no other white space, no two run-length digits in a row,
\* ordered castling letters and plain counters
IsCanonicalFen(text) ==
    LET parts == Fields(text)
    IN  /\ Len(parts) = 6
        /\ Len(text) >= 1
        /\ ~IsSpace(text[1]) /\ ~IsSpace(text[Len(text)])
        /\ \A i \in 1..Len(text) : IsSpace(text[i]) => text[i] = " "
        /\ \A i \in 1..(Len(text) - 1) : ~(IsSpace(text[i]) /\ IsSpace(text[i + 1]))
        /\ \A i \in 1..(Len(parts[1]) - 1) : ~(IsDigit(parts[1][i]) /\ IsDigit(parts[1][i + 1]))
        /\ IsOrderedCastling(parts[3])
        /\ IsPlainNumber(parts[5])
        /\ IsPlainNumber(parts[6])

\* C1, as stated: every text ParseFen accepts is returned by Fen() unchanged,
\* byte for byte.
FenRoundTripExact == fenPc = "serialized" => out = fen

\* C1, amended: every text ParseFen accepts that is written in the form
\* Fen() emits is returned by Fen() unchanged, byte for byte.
FenRoundTripCanonical ==
    (fenPc = "serialized" /\ IsCanonicalFen(fen)) => out = fen

\* a canonical text with all four castling letters, an en-passant square and
\* a two-digit clock has been parsed and serialised
FenRoundTripWitness ==
    /\ fenPc = "serialized"
    /\ IsCanonicalFen(fen)
    /\ \A i \in 0..3 : parsed.board.CastleSq[i] /= NoSquare
    /\ parsed.board.EpSquare /= NoSquare
    /\ parsed.board.Rule50 = 12
    /\ parsed.board.Piece[A1] = WR

-----------------------------------------------------------------------------
(* Move application                                                        *)

\* C2: MakeMove never writes the Board it is called on, so the shared Board
\* keeps every field, and each of two workers calling MakeMove on it in any
\* interleaving gets the Board it would get alone.
MakeMoveLeavesReceiver ==
    /\ shared = start
    /\ \A w \in Workers : wpc[w] = "done" => result[w] = MakeMove(start, wmove[w])

\* both workers have returned, one from an en-passant capture and the other
\* from another move
MakeMoveLeavesReceiverWitness ==
    /\ \A w \in Workers : wpc[w] = "done"
    /\ wmove[1] /= wmove[2]
    /\ wmove[1] /= NullMove
    /\ Type(start.Piece[wmove[1].From]) = Pawn
    /\ wmove[1].To = start.EpSquare
    /\ result[1] /= result[2]

\* C3: a castling right that is lost stays lost over every later MakeMove.
CastlingRightsMonotone ==
    [][\A i \in 0..3 : b.CastleSq[i] = NoSquare => b'.CastleSq[i] = NoSquare]_vars

\* a right held at the start was lost by the first move and is still lost
\* after the second
CastlingRightsMonotoneWitness ==
    /\ plies = 2
    /\ \E i \in 0..3 :
          /\ start.CastleSq[i] /= NoSquare
          /\ prev.CastleSq[i] = NoSquare
          /\ b.CastleSq[i] = NoSquare

\* the colour a castling right belongs to
RightColor(i) == i % 2

\* C4: after a move that is neither null nor castling, a right is held exactly
\* when it was held, its rook square is neither the move's origin nor its
\* destination, and it is not the mover's while the king moves; a held right
\* keeps its square.
RightsAfterMove ==
    (plies > 0 /\ last /= NullMove /\ ~IsCastling(prev, last)) =>
        \A i \in 0..3 :
            /\ (b.CastleSq[i] /= NoSquare) <=>
                  /\ prev.CastleSq[i] /= NoSquare
                  /\ prev.CastleSq[i] /= last.From
                  /\ prev.CastleSq[i] /= last.To
                  /\ ~(Type(prev.Piece[last.From]) = King /\ RightColor(i) = prev.SideToMove)
            /\ b.CastleSq[i] \in {NoSquare, prev.CastleSq[i]}

\* a rook was captured on its origin square by a piece other than the king:
\* that right of the opponent is gone and the opponent's other right is kept
RightsAfterMoveWitness ==
    /\ plies > 0
    /\ last /= NullMove
    /\ Type(prev.Piece[last.From]) /= King
    /\ prev.Piece[last.To] = opp(prev, Rook)
    /\ \E i, j \in 0..3 :
          /\ i /= j
          /\ RightColor(i) = 1 - prev.SideToMove
          /\ RightColor(j) = 1 - prev.SideToMove
          /\ prev.CastleSq[i] = last.To
          /\ b.CastleSq[i] = NoSquare
          /\ b.CastleSq[j] /= NoSquare

\* C5: a move of the mover's king onto the mover's rook castles: king and
\* rook leave their squares for the castled squares of the wing (the queen
\* side iff To < From), both rights of the mover are cleared, the opponent's
\* rights and every other square stay, and the half-move counter grows by one.
CastlingApplied ==
    (plies > 0 /\ IsCastling(prev, last)) =>
        LET side == prev.SideToMove
            r == HomeRank(side)
            kt == IF last.To < last.From THEN Square(2, r) ELSE Square(6, r)
            rt == IF last.To < last.From THEN Square(3, r) ELSE Square(5, r)
        IN  /\ b.Piece[kt] = side + King
            /\ b.Piece[rt] = side + Rook
            /\ \A sq \in {last.From, last.To} \ {kt, rt} : b.Piece[sq] = NoPiece
            /\ \A sq \in Squares \ {last.From, last.To, kt, rt} : b.Piece[sq] = prev.Piece[sq]
            /\ \A i \in 0..3 :
                  b.CastleSq[i] = IF RightColor(i) = side THEN NoSquare ELSE prev.CastleSq[i]
            /\ b.Rule50 = prev.Rule50 + 1

\* the mover held both rights and castled on the queen side while the
\* opponent held a right
CastlingAppliedWitness ==
    /\ plies > 0
    /\ IsCastling(prev, last)
    /\ last.To < last.From
    /\ \A i \in 0..3 : RightColor(i) = prev.SideToMove => prev.CastleSq[i] /= NoSquare
    /\ \E i \in 0..3 : b.CastleSq[i] /= NoSquare

\* C6: after a move other than the null move the half-move counter is 0 if a
\* pawn moved or an enemy piece was captured, and one more than before
\* otherwise, castling included.
Rule50AfterMove ==
    (plies > 0 /\ last /= NullMove) =>
        b.Rule50 = IF \/ Type(prev.Piece[last.From]) = Pawn
                      \/ IsOwn(prev, last.To, 1 - prev.SideToMove)
                   THEN 0
                   ELSE prev.Rule50 + 1

\* a piece other than a pawn captured while the counter was above 0
Rule50AfterMoveWitness ==
    /\ plies > 0
    /\ last /= NullMove
    /\ Type(prev.Piece[last.From]) /= Pawn
    /\ IsOwn(prev, last.To, 1 - prev.SideToMove)
    /\ prev.Rule50 > 0
    /\ b.Rule50 = 0

\* C7: a move other than the null move flips the side to move and adds one to
\* the full-move counter exactly when Black moved; so n moves after a position
\* with White to move and MoveNr = k, MoveNr = k + n \div 2.
SideAndMoveNr ==
    /\ (plies > 0 /\ last /= NullMove) =>
          /\ b.SideToMove = 1 - prev.SideToMove
          /\ b.MoveNr = prev.MoveNr + (IF prev.SideToMove = Black THEN 1 ELSE 0)
    /\ start.SideToMove = White => b.MoveNr = start.MoveNr + (plies \div 2)

\* White and then Black have moved
SideAndMoveNrWitness ==
    /\ plies = 2
    /\ start.SideToMove = White
    /\ last /= NullMove
    /\ prev /= MakeMove(start, NullMove)
    /\ b.SideToMove = White
    /\ b.MoveNr = start.MoveNr + 1

\* C8, as stated: the null move flips the side to move and clears the
\* en-passant square; placement, castling rights, half-move counter and
\* full-move counter stay, whichever side was to move.
NullMoveOnlyFlips ==
    (plies > 0 /\ last = NullMove) =>
        /\ b.SideToMove = 1 - prev.SideToMove
        /\ b.EpSquare = NoSquare
        /\ b.Piece = prev.Piece
        /\ b.CastleSq = prev.CastleSq
        /\ b.Rule50 = prev.Rule50
        /\ b.MoveNr = prev.MoveNr

\* C8, amended: the null move flips the side to move and clears the
\* en-passant square; placement, castling rights and half-move counter stay;
\* the full-move counter stays when White was to move and grows by one when
\* Black was to move.
NullMoveEffect ==
    (plies > 0 /\ last = NullMove) =>
        /\ b.SideToMove = 1 - prev.SideToMove
        /\ b.EpSquare = NoSquare
        /\ b.Piece = prev.Piece
        /\ b.CastleSq = prev.CastleSq
        /\ b.Rule50 = prev.Rule50
        /\ b.MoveNr = prev.MoveNr + (IF prev.SideToMove = Black THEN 1 ELSE 0)

\* Black passed while an en-passant square was set and the counter was above 0
NullMoveEffectWitness ==
    /\ plies > 0
    /\ last = NullMove
    /\ prev.SideToMove = Black
    /\ prev.EpSquare /= NoSquare
    /\ prev.Rule50 > 0
    /\ b.MoveNr = prev.MoveNr + 1

\* a pawn's move of two ranks along its file
IsDoublePush(board, m) ==
    /\ m /= NullMove
    /\ Type(board.Piece[m.From]) = Pawn
    /\ File(m.From) = File(m.To)
    /\ (Rank(m.To) - Rank(m.From) = 2 \/ Rank(m.From) - Rank(m.To) = 2)

\* C9: after a pawn's double push the en-passant square is the square passed
\* over, on the pawn's file midway between origin and destination; after any
\* other move, the null move included, it is NoSquare.
EpSquareAfterMove ==
    plies > 0 =>
        b.EpSquare = IF IsDoublePush(prev, last)
                     THEN Square(File(last.From), (Rank(last.From) + Rank(last.To)) \div 2)
                     ELSE NoSquare

\* the first move was a double push that set the en-passant square, and the
\* second move, not a double push, cleared it
EpSquareAfterMoveWitness ==
    /\ plies = 2
    /\ start.EpSquare = NoSquare
    /\ prev.EpSquare /= NoSquare
    /\ Rank(prev.EpSquare) \in {2, 5}
    /\ last /= NullMove
    /\ b.EpSquare = NoSquare

\* C10: when a pawn moves onto the en-passant square, the square on the
\* destination file and the origin rank is emptied, the origin is emptied,
\* the pawn stands on the destination and no other square changes.
EnPassantCaptureApplied ==
    (/\ plies > 0
     /\ last /= NullMove
     /\ Type(prev.Piece[last.From]) = Pawn
     /\ last.To = prev.EpSquare) =>
        /\ b.Piece[Square(File(last.To), Rank(last.From))] = NoPiece
        /\ b.Piece[last.From] = NoPiece
        /\ b.Piece[last.To] = prev.Piece[last.From]
        /\ \A sq \in Squares \ {last.From, last.To, Square(File(last.To), Rank(last.From))} :
              b.Piece[sq] = prev.Piece[sq]

-----------------------------------------------------------------------------
(* Captures, promotion and the legality filter                              *)

\* the squares that hold a piece of the colour
PiecesOf(board, color) == {sq \in Squares : IsOwn(board, sq, color)}

\* a pawn's diagonal move onto the en-passant square
IsEnPassant(board, m) ==
    /\ m /= NullMove
    /\ Type(board.Piece[m.From]) = Pawn
    /\ m.To = board.EpSquare
    /\ File(m.From) /= File(m.To)

\* a move onto an enemy piece, or an en-passant capture
IsCapture(board, m) ==
    /\ m /= NullMove
    /\ (IsOwn(board, m.To, 1 - board.SideToMove) \/ IsEnPassant(board, m))

\* C11: a legal capturing move removes exactly one enemy piece and no piece of
\* the mover; the piece removed stood on the destination for an ordinary
\* capture, and on the destination file at the mover's origin rank, not on
\* the destination, for an en-passant capture.
CaptureRemovesOne ==
    (plies > 0 /\ IsCapture(prev, last)) =>
        LET side == prev.SideToMove
            victim == IF IsEnPassant(prev, last)
                      THEN Square(File(last.To), Rank(last.From))
                      ELSE last.To
        IN  /\ PiecesOf(prev, 1 - side) \ PiecesOf(b, 1 - side) = {victim}
            /\ Cardinality(PiecesOf(b, 1 - side)) = Cardinality(PiecesOf(prev, 1 - side)) - 1
            /\ Cardinality(PiecesOf(b, side)) = Cardinality(PiecesOf(prev, side))
            /\ victim /= last.To <=> IsEnPassant(prev, last)

\* a pawn's move onto the mover's last rank
IsPromotionMove(board, m) ==
    /\ m /= NullMove
    /\ Type(board.Piece[m.From]) = Pawn
    /\ RelativeRank(m.To, board.SideToMove) = Rank8

\* no pawn stands on rank 1 or rank 8
NoBackRankPawn(board) ==
    \A sq \in Squares : Rank(sq) \in {Rank1, Rank8} => Type(board.Piece[sq]) /= Pawn

\* C12: after a pawn move onto the mover's last rank the destination holds
\* the move's promotion piece and no pawn; so a game started from a position
\* without a pawn on ranks 1 and 8 never has a pawn on rank 1 or rank 8.
PromotionApplied ==
    /\ (plies > 0 /\ IsPromotionMove(prev, last)) =>
          /\ b.Piece[last.To] = last.Promotion
          /\ Type(b.Piece[last.To]) /= Pawn
    /\ NoBackRankPawn(start) => NoBackRankPawn(b)

\* no king of the colour stands on a square the other colour attacks
KingSafe(board, color) ==
    \A sq \in Squares :
        board.Piece[sq] = color + King => ~isAttacked(board, sq, 1 - color)

\* C13: on every position the game calls it on, LegalMoves returns exactly
\* the pseudo-moves after which the mover's king is not attacked, and in every
\* position reached by a move of LegalMoves the king of the side that moved is
\* not attacked by the side to move.
KingSafeAfterMove ==
    /\ (plies > 0 /\ last /= NullMove) => KingSafe(b, prev.SideToMove)
    /\ plies < MaxPlies =>
          LegalMoves(b) = {m \in PseudoMoves(b) : KingSafe(MakeMove(b, m), b.SideToMove)}

\* the mover was in check with a pseudo-move that left its king attacked, and
\* answered with a legal move
KingSafeAfterMoveWitness ==
    /\ plies > 0
    /\ last /= NullMove
    /\ ~KingSafe(prev, prev.SideToMove)
    /\ \E m \in PseudoMoves(prev) : ~KingSafe(MakeMove(prev, m), prev.SideToMove)
    /\ KingSafe(b, prev.SideToMove)

\* the files a castling king stands on or crosses, from its file to c or g
KingPathFiles(kingFile, wing) ==
    IF wing = queenSide THEN {f \in 0..7 : 2 <= f /\ f <= kingFile}
    ELSE {f \in 0..7 : kingFile <= f /\ f <= 6}

\* the files strictly between the king's and the rook's
BetweenFiles(kingFile, rookFile) ==
    {f \in 0..7 : (kingFile < f /\ f < rookFile) \/ (rookFile < f /\ f < kingFile)}

\* the mover may castle on the wing: the right is held, the squares between
\* king and rook are empty and the king neither stands on, crosses nor lands
\* on an attacked square
MayCastle(board, wing) ==
    LET side == board.SideToMove
        r == HomeRank(side)
        rook == board.CastleSq[side + wing]
        king == find(board, side + King, Square(FileA, r), Square(FileH, r))
    IN  /\ rook /= NoSquare
        /\ king /= NoSquare
        /\ \A f \in BetweenFiles(File(king), File(rook)) : board.Piece[Square(f, r)] = NoPiece
        /\ \A f \in KingPathFiles(File(king), wing) : ~isAttacked(board, Square(f, r), 1 - side)

\* the wing of a castling move
WingOf(m) == IF m.To < m.From THEN queenSide ELSE kingSide

\* C14: a castling move is in LegalMoves only if its right is held, the
\* squares strictly between king and rook are empty and the king's start,
\* transit and destination squares are not attacked; when these hold it is in
\* LegalMoves, whether or not a square that only the rook crosses is attacked.
CastlingLegality ==
    plies < MaxPlies =>
        /\ \A m \in LegalMoves(b) :
              IsCastling(b, m) =>
                  /\ m.To = b.CastleSq[b.SideToMove + WingOf(m)]
                  /\ MayCastle(b, WingOf(m))
        /\ \A wing \in {queenSide, kingSide} :
              MayCastle(b, wing) =>
                  \E m \in LegalMoves(b) :
                      /\ IsCastling(b, m)
                      /\ m.To = b.CastleSq[b.SideToMove + wing]

\* the mover castled on the queen side while the b-file square its rook
\* crossed was attacked
CastlingLegalityWitness ==
    /\ plies > 0
    /\ IsCastling(prev, last)
    /\ WingOf(last) = queenSide
    /\ isAttacked(prev, Square(1, HomeRank(prev.SideToMove)), 1 - prev.SideToMove)
    /\ MayCastle(prev, queenSide)

\* the mover holds the right of a wing with the way to the rook clear and its
\* king not in check, and may not castle there because a square the king
\* crosses or lands on is attacked
CastlingRefused ==
    /\ plies > 0
    /\ plies < MaxPlies
    /\ \E wing \in {queenSide, kingSide} :
          LET side == b.SideToMove
              r == HomeRank(side)
              rook == b.CastleSq[side + wing]
          IN  /\ rook /= NoSquare
              /\ b.Piece[Square(4, r)] = side + King
              /\ \A f \in BetweenFiles(4, File(rook)) : b.Piece[Square(f, r)] = NoPiece
              /\ ~isAttacked(b, Square(4, r), 1 - side)
              /\ \E f \in KingPathFiles(4, wing) : isAttacked(b, Square(f, r), 1 - side)
              /\ \A m \in LegalMoves(b) : ~(IsCastling(b, m) /\ m.To = rook)

-----------------------------------------------------------------------------
(* Check, mate and stalemate                                                *)

\* some pseudo-move of the colour, were it to move, lands on the square
Reaches(board, color, sq) ==
    \E m \in PseudoMoves([board EXCEPT !.SideToMove = color, !.EpSquare = NoSquare]) :
        m.To = sq

\* the king of the side to move stands on a square the opponent's pieces reach
InCheck(board) ==
    \E sq \in Squares :
        /\ board.Piece[sq] = board.SideToMove + King
        /\ Reaches(board, 1 - board.SideToMove, sq)

StalemateReached ==
    /\ plies > 0
    /\ last /= NullMove
    /\ ~InCheck(b)
    /\ LegalMoves(b) = {}
    /\ status = [check |-> FALSE, mate |-> FALSE]

-----------------------------------------------------------------------------
(* En passant after a double push                                           *)

\* the legal moves that land on the en-passant square
MovesOntoEp(board) == {m \in LegalMoves(board) : m.To = board.EpSquare}

\* the legal pawn moves that land on the en-passant square
PawnMovesOntoEp(board) ==
    {m \in MovesOntoEp(board) : Type(board.Piece[m.From]) = Pawn}

\* the pawns of the side to move that stand beside the square sq, on its rank
PawnsBeside(board, sq) ==
    {p \in Squares :
        /\ Rank(p) = Rank(sq)
        /\ (File(p) = File(sq) + 1 \/ File(p) = File(sq) - 1)
        /\ board.Piece[p] = board.SideToMove + Pawn}

\* C17, as stated: in every position that results from a pawn double push,
\* exactly one legal move of the side to move has the en-passant square as its
\* destination, and applying it removes the pawn on the destination file at
\* the capturing pawn's origin rank, not a piece on the destination square.
EnPassantExactlyOne ==
    (plies > 0 /\ IsDoublePush(prev, last)) =>
        /\ Cardinality(MovesOntoEp(b)) = 1
        /\ \A m \in MovesOntoEp(b) :
              LET victim == Square(File(m.To), Rank(m.From))
              IN  /\ b.Piece[victim] = opp(b, Pawn)
                  /\ MakeMove(b, m).Piece[victim] = NoPiece
                  /\ b.Piece[m.To] = NoPiece

\* C17, amended: in every position that results from a pawn double push, the
\* legal pawn moves of the side to move onto the en-passant square are the
\* captures by its pawns beside the pushed pawn that leave its king safe
\* (none, one or two moves), and applying one removes the pushed pawn, on the
\* destination file at the capturing pawn's origin rank, and no piece on the
\* destination square, which was empty.
EnPassantAfterDoublePush ==
    (plies > 0 /\ IsDoublePush(prev, last)) =>
        LET side == b.SideToMove
            caps == PawnMovesOntoEp(b)
        IN  /\ caps = {m \in {Move(p, b.EpSquare, NoPiece) : p \in PawnsBeside(b, last.To)} :
                          KingSafe(MakeMove(b, m), side)}
            /\ Cardinality(caps) <= 2
            /\ \A m \in caps :
                  LET victim == Square(File(m.To), Rank(m.From))
                      nb == MakeMove(b, m)
                  IN  /\ victim = last.To
                      /\ victim /= m.To
                      /\ b.Piece[victim] = opp(b, Pawn)
                      /\ nb.Piece[victim] = NoPiece
                      /\ b.Piece[m.To] = NoPiece
                      /\ nb.Piece[m.To] = side + Pawn
                      /\ PiecesOf(b, 1 - side) \ PiecesOf(nb, 1 - side) = {victim}

\* a pawn was pushed two squares between two enemy pawns, and both may take
\* it en passant
EnPassantAfterDoublePushWitness ==
    /\ plies > 0
    /\ IsDoublePush(prev, last)
    /\ Cardinality(PawnsBeside(b, last.To)) = 2
    /\ Cardinality(PawnMovesOntoEp(b)) = 2

-----------------------------------------------------------------------------
(* The SAN round trip                                                       *)

\* C18: for every board b the game continues from and every move m of
\* b.LegalMoves(), b.ParseMove(m.San(b)) succeeds and returns m, with its
\* origin, destination and promotion piece, also where several pieces of one
\* kind reach one destination.
SanRoundTrip ==
    plies < MaxPlies =>
        LET legal == LegalMoves(b)
        IN  \A m \in legal :
                ParseMoveAmong(b, legal, SanAmong(b, legal, m)) = [move |-> m, err |-> NoErr]

\* three knights reach one square: one is told apart by its file, one by its
\* rank and one by both; and a pawn's promoting moves are told apart
SanRoundTripWitness ==
    /\ plies < MaxPlies
    /\ LET legal == LegalMoves(b)
       IN  /\ \E m \in legal :
                 /\ Type(b.Piece[m.From]) = Knight
                 /\ SanOrigin(b, legal, m) = <<FileChars[File(m.From) + 1]>>
                 /\ San(b, m) = <<"N", "c", "b", "3">>
                 /\ ParseMove(b, San(b, m)).move = m
           /\ \E m \in legal :
                 /\ Type(b.Piece[m.From]) = Knight
                 /\ SanOrigin(b, legal, m) = <<RankChars[Rank(m.From) + 1]>>
           /\ \E m \in legal :
                 /\ Type(b.Piece[m.From]) = Knight
                 /\ SanOrigin(b, legal, m) = SqString(m.From)

-----------------------------------------------------------------------------
(* Perft                                                                    *)

\* C15: from the starting position perft counts 1 node at depth 0, 20 at
\* depth 1, 400 at depth 2, 8902 at depth 3 with 34 captures and 12 checks at
\* the last ply, and 197281 at depth 4 with 8 checkmates; these are the
\* values of PerftExpected that TestPerft compares with.
PerftCounts ==
    perftPc = "done" =>
        /\ depth = 0 => stats.Nodes = 1
        /\ depth = 1 => stats.Nodes = 20
        /\ depth = 2 => stats.Nodes = 400
        /\ depth = 3 => stats.Nodes = 8902 /\ stats.Captures = 34 /\ stats.Checks = 12
        /\ depth = 4 => stats.Nodes = 197281 /\ stats.Checkmates = 8
        /\ stats.Nodes = PerftExpected[depth + 1].Nodes
        /\ depth >= 3 =>
              /\ stats.Captures = PerftExpected[depth + 1].Captures
              /\ stats.Checks = PerftExpected[depth + 1].Checks
        /\ depth >= 4 => stats.Checkmates = PerftExpected[depth + 1].Checkmates

\* the run of depth 3 is over and has counted nodes, captures and checks
PerftCountsWitness ==
    /\ perftPc = "done"
    /\ depth = 3
    /\ stack = <<>>
    /\ stats.Nodes = 8902
    /\ stats.Captures = 34
    /\ stats.Checks = 12

\* the run of depth 4 is over and has counted its nodes and checkmates
PerftDeepestRunDone ==
    /\ perftPc = "done"
    /\ depth = maxTestDepth
    /\ stack = <<>>
    /\ stats.Nodes = 197281
    /\ stats.Checkmates = 8

-----------------------------------------------------------------------------
(* Insufficient material                                                    *)

\* the number of squares holding the piece
Count(board, piece) == Cardinality({sq \in Squares : board.Piece[sq] = piece})

\* the colour has a bishop on a square of colour c
BishopOn(board, color, c) ==
    \E sq \in Squares : board.Piece[sq] = color + Bishop /\ SqColor(sq) = c

\* the colour holds a rook, a queen, a pawn, two or more knights, a bishop
\* with a knight, or bishops on both square colours
HoldsMatingMaterial(board, color) ==
    \/ Count(board, color + Rook) > 0
    \/ Count(board, color + Queen) > 0
    \/ Count(board, color + Pawn) > 0
    \/ Count(board, color + Knight) >= 2
    \/ (Count(board, color + Bishop) >= 1 /\ Count(board, color + Knight) >= 1)
    \/ (BishopOn(board, color, 0) /\ BishopOn(board, color, 1))

\* C19: HasInsufficientMaterial returns false for every position in which
\* White or Black holds a rook, a queen, a pawn, two or more knights, a bishop
\* together with a knight, or bishops on both square colours.
SufficientMaterialIsFalse ==
    (matPc = "done" /\ \E color \in {White, Black} : HoldsMatingMaterial(mat, color))
        => insufficient = FALSE

\* the colour has its king, at most one bishop or knight and nothing else
BareOrOneMinor(board, color) ==
    /\ Count(board, color + King) = 1
    /\ Count(board, color + Rook) = 0
    /\ Count(board, color + Queen) = 0
    /\ Count(board, color + Pawn) = 0
    /\ Count(board, color + Bishop) + Count(board, color + Knight) <= 1

\* C20: HasInsufficientMaterial returns true only for positions in which each
\* side has its king, at most one bishop or knight and nothing else.
InsufficientOnlyOneMinor ==
    (matPc = "done" /\ insufficient) =>
        \A color \in {White, Black} : BareOrOneMinor(mat, color)

\* C21: HasInsufficientMaterial returns true for every position in which each
\* side has only its king plus at most one bishop or knight, bishop against
\* bishop on squares of one colour or of both included.
OneMinorEachIsInsufficient ==
    (matPc = "done" /\ \A color \in {White, Black} : BareOrOneMinor(mat, color))
        => insufficient = TRUE

\* king and bishop against king and bishop, the two bishops on squares of one
\* colour, has been judged
OneMinorEachWitness ==
    /\ matPc = "done"
    /\ insufficient
    /\ \A color \in {White, Black} :
          BareOrOneMinor(mat, color) /\ Count(mat, color + Bishop) = 1
    /\ \E c \in {0, 1} : BishopOn(mat, White, c) /\ BishopOn(mat, Black, c)

\* king and bishop against king and bishop, the two bishops on squares of
\* different colours, has been judged
OppositeBishopsJudged ==
    /\ matPc = "done"
    /\ insufficient
    /\ \A color \in {White, Black} :
          BareOrOneMinor(mat, color) /\ Count(mat, color + Bishop) = 1
    /\ \E c \in {0, 1} : BishopOn(mat, White, c) /\ BishopOn(mat, Black, 1 - c)

-----------------------------------------------------------------------------
(* FEN parsing: what is accepted, what is refused                          *)

\* the number of fields of a text: the places where a character that is not
\* white space opens the text or follows white space
FieldCount(text) ==
    Cardinality({i \in 1..Len(text) :
                    ~IsSpace(text[i]) /\ (i = 1 \/ IsSpace(text[i - 1]))})

\* C22: ParseFen succeeds only on a text of exactly six whitespace-separated
\* fields; a text of fewer or of more fields gets an error and no Board.
SixFieldsRequired ==
    fenPc /= "input" =>
        /\ parsed.err = NoErr => FieldCount(fen) = 6
        /\ FieldCount(fen) /= 6 => (parsed.err /= NoErr /\ parsed.board = NilBoard)

\* a text of seven fields whose first six are a well-formed FEN was refused
SixFieldsRequiredWitness ==
    /\ fenPc = "parsed"
    /\ FieldCount(fen) = 7
    /\ parsed.err /= NoErr
    /\ ParseFen(SubSeq(fen, 1, Len(fen) - 2)).err = NoErr

\* a text of five fields, a well-formed FEN without its last field, was refused
FiveFieldsRefused ==
    /\ fenPc = "parsed"
    /\ FieldCount(fen) = 5
    /\ parsed.err /= NoErr
    /\ ParseFen(fen \o <<" ", "1">>).err = NoErr

\* the twelve piece letters of a placement field
PieceLetters == {"P", "N", "B", "R", "Q", "K", "p", "n", "b", "r", "q", "k"}

\* the run lengths of a placement field
RunDigits == {"1", "2", "3", "4", "5", "6", "7", "8"}

\* the piece a letter stands for
LetterPiece(c) ==
    CASE c = "P" -> WP [] c = "N" -> WN [] c = "B" -> WB
      [] c = "R" -> WR [] c = "Q" -> WQ [] c = "K" -> WK
      [] c = "p" -> BP [] c = "n" -> BN [] c = "b" -> BB
      [] c = "r" -> BR [] c = "q" -> BQ [] c = "k" -> BK

\* the files the first n characters of a rank string cover
RECURSIVE FilesCovered(_, _)
FilesCovered(r, n) ==
    IF n = 0 THEN 0
    ELSE FilesCovered(r, n - 1)
         + (IF r[n] \in RunDigits THEN IndexOf(RankChars, r[n]) ELSE 1)

\* a rank string of run lengths and piece letters that cover exactly 8 files
RankWellFormed(r) ==
    /\ \A i \in 1..Len(r) : r[i] \in RunDigits \cup PieceLetters
    /\ FilesCovered(r, Len(r)) = 8

\* a placement field of exactly eight well-formed ranks
PlacementWellFormed(p) ==
    LET ranks == Split(p, "/")
    IN  /\ Len(ranks) = 8
        /\ \A k \in 1..8 : RankWellFormed(ranks[k])

\* what a well-formed placement puts on a square: the first rank string is
\* rank 8, and a letter stands on the file the characters before it cover
PlacedOn(p, sq) ==
    LET r == Split(p, "/")[8 - Rank(sq)]
        at == {i \in 1..Len(r) :
                  r[i] \in PieceLetters /\ FilesCovered(r, i - 1) = File(sq)}
    IN  IF at = {} THEN NoPiece ELSE LetterPiece(r[CHOOSE i \in at : TRUE])

\* the errors of parsePiecePlacement
PlacementErrors == {ErrRanks, ErrTooMany, ErrPieceChar, ErrRankLen}

\* C23: of a text of six fields ParseFen refuses the placement field exactly
\* when it is not eight '/'-separated ranks of digits 1-8 and piece letters
\* covering exactly 8 files each; an accepted placement puts each letter of
\* the k-th rank string on rank 9-k, on the file reached so far.
PlacementAccepted ==
    (fenPc /= "input" /\ FieldCount(fen) = 6) =>
        LET p == Fields(fen)[1]
        IN  /\ parsed.err \in PlacementErrors <=> ~PlacementWellFormed(p)
            /\ parsed.err = NoErr =>
                  \A sq \in Squares : parsed.board.Piece[sq] = PlacedOn(p, sq)

\* a placement with pieces after runs of empty squares was accepted and put
\* the rook of the first rank string on a8 and the pawns of the fourth on d5, e5
PlacementAcceptedWitness ==
    /\ fenPc = "parsed"
    /\ parsed.err = NoErr
    /\ parsed.board.Piece[A8] = BR
    /\ parsed.board.Piece[Square(3, 4)] = BP
    /\ parsed.board.Piece[Square(4, 4)] = WP
    /\ parsed.board.Piece[H1] = WR

\* a placement of eight ranks, in a text of six fields, was refused with e
PlacementRefused(e) ==
    /\ fenPc = "parsed"
    /\ parsed.err = e
    /\ FieldCount(fen) = 6
    /\ Len(Split(Fields(fen)[1], "/")) = 8

\* a letter after the eighth file of a rank was refused
PlacementTooManyRefused == PlacementRefused(ErrTooMany)

\* a rank of 7 or of 9 files was refused
PlacementRankLenRefused == PlacementRefused(ErrRankLen)

\* an unknown letter, or the digit 0, was refused
PlacementPieceCharRefused == PlacementRefused(ErrPieceChar)

\* a counter field that is a non-negative integer: decimal digits, with or
\* without a leading '+'
IsNonNegativeNumber(s) ==
    LET digits == IF Len(s) >= 1 /\ s[1] = "+" THEN Tail(s) ELSE s
    IN  Len(digits) >= 1 /\ \A i \in 1..Len(digits) : IsDigit(digits[i])

\* the value of a non-negative counter field
NumberValue(s) ==
    DigitsValue(IF s[1] = "+" THEN Tail(s) ELSE s, 1, 0)

\* C24: ParseFen accepts a text only if its half-move clock and its full-move
\* number are non-negative integers, and then Rule50 and MoveNr are their
\* values.
ClocksNonNegative ==
    (fenPc /= "input" /\ parsed.err = NoErr) =>
        LET parts == Fields(fen)
        IN  /\ IsNonNegativeNumber(parts[5])
            /\ IsNonNegativeNumber(parts[6])
            /\ parsed.board.Rule50 = NumberValue(parts[5])
            /\ parsed.board.MoveNr = NumberValue(parts[6])

\* a text whose full-move number is negative was accepted
NegativeMoveNrAccepted ==
    /\ fenPc = "parsed"
    /\ parsed.err = NoErr
    /\ parsed.board.MoveNr < 0

\* what holds of the counters: a field that is not a signed integer is
\* refused, and an accepted text's Rule50 and MoveNr are the integers written
ClocksAreIntegers ==
    (fenPc /= "input" /\ parsed.err = NoErr) =>
        LET parts == Fields(fen)
            Signed(s) == IF Len(s) >= 1 /\ s[1] = "-" THEN Tail(s) ELSE s
            Value(s) == IF s[1] = "-" THEN -NumberValue(Tail(s)) ELSE NumberValue(s)
        IN  /\ IsNonNegativeNumber(Signed(parts[5]))
            /\ IsNonNegativeNumber(Signed(parts[6]))
            /\ parsed.board.Rule50 = Value(parts[5])
            /\ parsed.board.MoveNr = Value(parts[6])

\* a castling field that is "-" or made of the letters K, Q, k, q only
CastlingWellFormed(s) ==
    \/ s = <<"-">>
    \/ \A i \in 1..Len(s) : s[i] \in {"K", "Q", "k", "q"}

\* the character occurs in the field
Occurs(s, c) == \E i \in 1..Len(s) : s[i] = c

\* C25: ParseFen refuses the castling field exactly when it is neither "-"
\* nor made of letters from KQkq; an accepted text sets the rook-origin square
\* of White's king side to h1 iff K occurs, of White's queen side to a1 iff Q
\* occurs, of Black's king side to h8 iff k occurs, of Black's queen side to
\* a8 iff q occurs, and to the sentinel otherwise, whatever stands on the
\* home squares.
CastlingFieldAccepted ==
    (fenPc /= "input" /\ FieldCount(fen) = 6) =>
        LET parts == Fields(fen)
            Right(c, home) == IF Occurs(parts[3], c) THEN home ELSE NoSquare
        IN  /\ (PlacementWellFormed(parts[1]) /\ parts[2] \in {<<"w">>, <<"b">>}) =>
                  (parsed.err = ErrCastling <=> ~CastlingWellFormed(parts[3]))
            /\ parsed.err = NoErr =>
                  /\ CastlingWellFormed(parts[3])
                  /\ parsed.board.CastleSq[WhiteOO] = Right("K", H1)
                  /\ parsed.board.CastleSq[WhiteOOO] = Right("Q", A1)
                  /\ parsed.board.CastleSq[BlackOO] = Right("k", H8)
                  /\ parsed.board.CastleSq[BlackOOO] = Right("q", A8)

\* the field "qK" was accepted for a position with no rook on h1 or a8: the
\* two rights named are set, the other two are not
CastlingFieldAcceptedWitness ==
    /\ fenPc = "parsed"
    /\ parsed.err = NoErr
    /\ Fields(fen)[3] = <<"q", "K">>
    /\ parsed.board.CastleSq = [i \in 0..3 |->
                                   IF i = WhiteOO THEN H1
                                   ELSE IF i = BlackOOO THEN A8 ELSE NoSquare]
    /\ parsed.board.Piece[H1] = NoPiece
    /\ parsed.board.Piece[A8] = NoPiece

\* a castling field with a foreign letter after two good ones was refused
CastlingFieldRefused ==
    /\ fenPc = "parsed"
    /\ parsed.err = ErrCastling
    /\ Fields(fen)[3] = <<"K", "Q", "x">>

\* an en-passant field that names a square: a file letter a-h, then a rank
\* digit 1-8
IsAlgebraicSquare(s) ==
    /\ Len(s) = 2
    /\ s[1] \in {"a", "b", "c", "d", "e", "f", "g", "h"}
    /\ s[2] \in RunDigits

\* the index of the square a field names: 8 times its rank plus its file,
\* both counted from 0
NamedSquare(s) ==
    8 * (CHOOSE r \in 0..7 : RankChars[r + 1] = s[2])
    + (CHOOSE f \in 0..7 : FileChars[f + 1] = s[1])

\* the text was accepted up to and including its castling field
ReadUpToEnPassant ==
    /\ fenPc /= "input"
    /\ FieldCount(fen) = 6
    /\ PlacementWellFormed(Fields(fen)[1])
    /\ Fields(fen)[2] \in {<<"w">>, <<"b">>}
    /\ CastlingWellFormed(Fields(fen)[3])

\* C26: ParseFen refuses the en-passant field exactly when it is neither "-"
\* nor a file letter a-h followed by a rank digit 1-8; an accepted text's
\* target is the sentinel for "-" and the named square otherwise, on any rank.
EnPassantFieldAccepted ==
    LET ep == Fields(fen)[4]
    IN  /\ ReadUpToEnPassant =>
              (parsed.err = ErrEnPassant <=> ~(ep = <<"-">> \/ IsAlgebraicSquare(ep)))
        /\ (fenPc /= "input" /\ parsed.err = NoErr) =>
              parsed.board.EpSquare =
                  IF ep = <<"-">> THEN NoSquare ELSE NamedSquare(ep)

\* the square h1, which no double push can leave behind, was accepted as the
\* en-passant target
EnPassantFieldAcceptedWitness ==
    /\ fenPc = "parsed"
    /\ parsed.err = NoErr
    /\ Fields(fen)[4] = <<"h", "1">>
    /\ parsed.board.EpSquare = H1

\* the field "e9" was refused
EnPassantFieldRefused ==
    /\ fenPc = "parsed"
    /\ parsed.err = ErrEnPassant
    /\ Fields(fen)[4] = <<"e", "9">>

\* a counter field strconv.Atoi reads: decimal digits after an optional sign
IsNumber(s) ==
    LET digits == IF Len(s) >= 1 /\ s[1] \in {"+", "-"} THEN Tail(s) ELSE s
    IN  Len(digits) >= 1 /\ \A i \in 1..Len(digits) : IsDigit(digits[i])

\* the k-th field of a text of six fields obeys its rule
FieldObeys(text, k) ==
    LET f == Fields(text)[k]
    IN  CASE k = 1 -> PlacementWellFormed(f)
          [] k = 2 -> f \in {<<"w">>, <<"b">>}
          [] k = 3 -> CastlingWellFormed(f)
          [] k = 4 -> f = <<"-">> \/ IsAlgebraicSquare(f)
          [] k \in {5, 6} -> IsNumber(f)

\* the first field, in field order, that breaks its rule: 0 for a text that
\* has not six fields, 7 for a text that breaks no rule
FirstInvalidField(text) ==
    IF FieldCount(text) /= 6 THEN 0
    ELSE LET bad == {k \in 1..6 : ~FieldObeys(text, k)}
         IN  IF bad = {} THEN 7 ELSE CHOOSE k \in bad : \A j \in bad : k <= j

\* the field whose rule an error names, 0 for the field count, 7 for no error
ErrorField(e) ==
    CASE e = ErrFields -> 0
      [] e \in PlacementErrors -> 1
      [] e = ErrColor -> 2
      [] e = ErrCastling -> 3
      [] e = ErrEnPassant -> 4
      [] e = ErrHalfmove -> 5
      [] e = ErrFullmove -> 6
      [] e = NoErr -> 7

\* C27: whenever ParseFen reports an error it returns no Board at all, and
\* the error names the rule of the first field, in field order, that is
\* invalid (the field count before any field; within the placement, the
\* rank-count error exactly when there are not eight ranks).
FirstErrorReported ==
    fenPc /= "input" =>
        /\ parsed.err /= NoErr => parsed.board = NilBoard
        /\ parsed.err = NoErr => parsed.board /= NilBoard
        /\ ErrorField(parsed.err) = FirstInvalidField(fen)
        /\ parsed.err = ErrRanks <=>
              (FieldCount(fen) = 6 /\ Len(Split(Fields(fen)[1], "/")) /= 8)

\* a text whose castling field, en-passant field and half-move clock are all
\* invalid was refused with the castling error and no Board
FirstErrorReportedWitness ==
    /\ fenPc = "parsed"
    /\ parsed.err = ErrCastling
    /\ parsed.board = NilBoard
    /\ ~FieldObeys(fen, 4)
    /\ ~FieldObeys(fen, 5)

\* a text whose first five fields are all invalid was refused with a
\* placement error
AllFieldsInvalidRefused ==
    /\ fenPc = "parsed"
    /\ parsed.err \in PlacementErrors
    /\ parsed.board = NilBoard
    /\ \A k \in 2..5 : ~FieldObeys(fen, k)

-----------------------------------------------------------------------------
(* The FEN round trip of a Board                                           *)

\* the fields of a Board that a FEN text carries
FenFieldsOf(board) ==
    <<board.Piece, board.SideToMove, board.CastleSq, board.EpSquare,
      board.Rule50, board.MoveNr>>

\* C28: for every Board b obtained from ParseFen followed by any sequence of
\* legal MakeMove calls, ParseFen(b.Fen()) succeeds, yields a Board with the
\* placement, side to move, castling squares, en-passant square and counters
\* of b, and that Board serialises to the same string again.
BoardRoundTrip ==
    LET text == Fen(b)
        r == ParseFen(text)
    IN  /\ r.err = NoErr
        /\ FenFieldsOf(r.board) = FenFieldsOf(b)
        /\ Fen(r.board) = text

\* a Board reached by a pawn's double push, carrying an en-passant square,
\* was written and read back with that square
BoardRoundTripWitness ==
    /\ plies > 0
    /\ last /= NullMove
    /\ prev.EpSquare = NoSquare
    /\ b.EpSquare /= NoSquare
    /\ ParseFen(Fen(b)).board.EpSquare = b.EpSquare

\* a Board reached by castling, on which one side has lost both rights and
\* the other keeps both, was written and read back with those rights
CastledBoardRoundTrip ==
    /\ plies > 0
    /\ IsCastling(prev, last)
    /\ \E side \in {White, Black} :
          /\ b.CastleSq[side + kingSide] = NoSquare
          /\ b.CastleSq[side + queenSide] = NoSquare
          /\ b.CastleSq[(1 - side) + kingSide] /= NoSquare
          /\ b.CastleSq[(1 - side) + queenSide] /= NoSquare
    /\ ParseFen(Fen(b)).board.CastleSq = b.CastleSq

-----------------------------------------------------------------------------
(* Totality of the generator and of MakeMove                               *)

\* C29: for every Board that ParseFen can return, a Board without the king of
\* the side to move or with an en-passant square on any rank included,
\* LegalMoves returns a finite, possibly empty, collection of moves between
\* squares of the board, and MakeMove of each of them reads and writes
\* b.Piece inside 0..63 only.
GeneratorTotal ==
    LET legal == LegalMoves(b)
    IN  /\ IsFiniteSet(legal)
        /\ \A m \in legal :
              /\ m.From \in Squares
              /\ m.To \in Squares
              /\ MakeMoveAccesses(b, m) \subseteq Squares
        /\ (plies > 0) => MakeMoveAccesses(prev, last) \subseteq Squares

\* on a Board without the king of the side to move, a pawn has captured onto
\* an en-passant square that a pawn stood on
GeneratorTotalWitness ==
    /\ plies > 0
    /\ last /= NullMove
    /\ find(prev, my(prev, King), A1, H8) = NoSquare
    /\ Type(prev.Piece[last.From]) = Pawn
    /\ last.To = prev.EpSquare
    /\ prev.Piece[last.To] /= NoPiece
    /\ b.Piece[last.To] = prev.Piece[last.From]

\* the generator returned no move at all: a position without any piece
NoMoveReturned ==
    /\ LegalMoves(b) = {}
    /\ \A sq \in Squares : b.Piece[sq] = NoPiece

\* a pawn has captured en passant onto the a-file
EdgeEnPassantPlayed ==
    /\ plies > 0
    /\ last /= NullMove
    /\ Type(prev.Piece[last.From]) = Pawn
    /\ last.To = prev.EpSquare
    /\ File(last.To) = FileA
    /\ File(last.From) = 1

-----------------------------------------------------------------------------
(* Squares                                                                  *)

\* C30: Square(file, rank) is rank*8+file when both coordinates are in 0..7
\* and NoSquare otherwise; for every square sq of 0..63,
\* Square(sq.File(), sq.Rank()) is sq and squareFromString(sq.String()) is
\* sq; NoSquare is written "-".
SquarePacking ==
    LET onBoard == coord.file \in 0..7 /\ coord.rank \in 0..7
    IN  /\ coord.pc \in {"packed", "repacked", "named", "read"} =>
              coord.sq = IF onBoard THEN coord.rank * 8 + coord.file ELSE NoSquare
        /\ (coord.pc \in {"repacked", "named", "read"} /\ coord.sq \in 0..63) =>
              coord.again = coord.sq
        /\ (coord.pc \in {"named", "read"} /\ coord.sq = NoSquare) =>
              coord.text = <<"-">>
        /\ (coord.pc = "read" /\ coord.sq \in 0..63) => coord.back = coord.sq

\* file 7 and rank 7 were packed into square 63, which was unpacked and
\* packed again, written "h8" and read back
SquarePackingWitness ==
    /\ coord.pc = "read"
    /\ coord.file = 7 /\ coord.rank = 7
    /\ coord.sq = 63
    /\ coord.again = 63
    /\ coord.text = <<"h", "8">>
    /\ coord.back = 63

\* file 8 and rank 0 were packed into NoSquare, not into square 8, and
\* NoSquare was written "-"
OffBoardIsNoSquare ==
    /\ coord.pc = "read"
    /\ coord.file = 8 /\ coord.rank = 0
    /\ coord.sq = NoSquare
    /\ coord.text = <<"-">>

\* every square of 0..63 is the result of some Square(file, rank)
EverySquareIsPacked ==
    \A sq \in Squares : \E file \in 0..7, rank \in 0..7 : Square(file, rank) = sq

-----------------------------------------------------------------------------
(* Pieces                                                                   *)

\* the characters ParseFen never hands to pieceFromChar: run lengths, the
\* rank separator and white space
FenStructureChars == RunDigits \cup {"/", " "}

\* C31: each of the twelve pieces p is Color(p) | Type(p) with Color(p)
\* White (0) or Black (1); pieceFromChar maps each of PNBRQK to the White
\* piece and each of pnbrqk to the Black piece of that type,
\* PieceRunes[pieceFromChar(c)] is c for these twelve letters, and every
\* other character (with '.' and ',') maps to NoPiece, which ParseFen
\* reports as an invalid piece character instead of placing a piece.
\* (Color(p) is bit 0 of p and Type(p) the other bits, so their bitwise or
\* is their sum.)
PieceEncoding ==
    /\ \A p \in WP..BK :
          /\ p = Color(p) + Type(p)
          /\ Color(p) \in {White, Black}
          /\ Type(p) \in {Pawn, Knight, Bishop, Rook, Queen, King}
    /\ glyph.pc \in {"looked", "named", "parsed"} =>
          glyph.piece = IF glyph.c \in PieceLetters THEN LetterPiece(glyph.c) ELSE NoPiece
    /\ (glyph.pc \in {"named", "parsed"} /\ glyph.c \in PieceLetters) =>
          glyph.rune = glyph.c
    /\ (glyph.pc = "parsed" /\ glyph.c \notin FenStructureChars) =>
          IF glyph.c \in PieceLetters
          THEN /\ glyph.parsed.err = NoErr
               /\ glyph.parsed.board.Piece[Square(FileA, 1)] = LetterPiece(glyph.c)
          ELSE /\ glyph.parsed.err = ErrPieceChar
               /\ glyph.parsed.board = NilBoard

\* 'n' was looked up as the Black knight, written back as 'n' and placed
\* on a2 by ParseFen
PieceEncodingWitness ==
    /\ glyph.pc = "parsed"
    /\ glyph.c = "n"
    /\ glyph.piece = BN
    /\ Color(glyph.piece) = Black /\ Type(glyph.piece) = Knight
    /\ glyph.rune = "n"
    /\ glyph.parsed.err = NoErr
    /\ glyph.parsed.board.Piece[Square(FileA, 1)] = BN

\* ',' is the rune of index 1 of PieceRunes, yet it was looked up as
\* NoPiece and refused by ParseFen
FillerRuneRefused ==
    /\ glyph.pc = "parsed"
    /\ glyph.c = ","
    /\ glyph.piece = NoPiece
    /\ glyph.parsed.err = ErrPieceChar

-----------------------------------------------------------------------------
(* Positions of a game                                                      *)

\* C32: in every position reached from the standard starting position by
\* legal moves, a retained castling right (CastleSq[colour|wing] other than
\* NoSquare) implies that the colour's king stands on its home square (e1 or
\* e8) and that the colour's rook stands on the tracked rook-origin square.
RetainedRightPlaced ==
    \A i \in 0..3 :
        b.CastleSq[i] /= NoSquare =>
            /\ b.Piece[Square(4, HomeRank(RightColor(i)))] = RightColor(i) + King
            /\ b.Piece[b.CastleSq[i]] = RightColor(i) + Rook

\* two moves into a game a right held at the start is gone, because its rook
\* moved or was captured, and another right of the same colour is retained
\* with king and rook at home
RetainedRightPlacedWitness ==
    /\ plies = 2
    /\ \E i, j \in 0..3 :
          /\ RightColor(i) = RightColor(j)
          /\ start.CastleSq[i] /= NoSquare
          /\ b.CastleSq[i] = NoSquare
          /\ b.CastleSq[j] /= NoSquare
          /\ b.Piece[Square(4, HomeRank(RightColor(j)))] = RightColor(j) + King
          /\ b.Piece[b.CastleSq[j]] = RightColor(j) + Rook

\* two moves into a game from the standard starting position all four
\* rights are retained
StandardStartKeepsRights ==
    /\ plies = 2
    /\ start = ParseFen(FenStart).board
    /\ last /= NullMove
    /\ \A i \in 0..3 : b.CastleSq[i] = start.CastleSq[i] /\ b.CastleSq[i] /= NoSquare

\* the square on the file of sq whose rank, seen from the side, is rank
OnFileOf(sq, side, rank) == Square(File(sq), IF side = White THEN rank ELSE 7 - rank)

\* C33: in every board returned by MakeMove, if the en-passant square is not
\* NoSquare then it lies on the third rank relative to the side that just
\* moved, the square in front of it (fourth relative rank, same file) holds
\* that side's pawn, the square behind it (second relative rank, same file)
\* is empty, and the opponent is to move.
EpSquareBehindPushedPawn ==
    (plies > 0 /\ b.EpSquare /= NoSquare) =>
        LET mover == prev.SideToMove
        IN  /\ RelativeRank(b.EpSquare, mover) = 2
            /\ b.Piece[OnFileOf(b.EpSquare, mover, 3)] = mover + Pawn
            /\ b.Piece[OnFileOf(b.EpSquare, mover, 1)] = NoPiece
            /\ b.SideToMove = 1 - mover

\* Black's pawn went from d7 to d5: the en-passant square is d6, d5 holds
\* the pawn, d7 is empty and White is to move
EpSquareBehindPushedPawnWitness ==
    /\ plies > 0
    /\ prev.SideToMove = Black
    /\ last = Move(Square(3, 6), Square(3, 4), NoPiece)
    /\ b.EpSquare = Square(3, 5)
    /\ b.Piece[Square(3, 4)] = BP
    /\ b.Piece[Square(3, 6)] = NoPiece
    /\ b.SideToMove = White

\* White's pawn went two squares forward from the second rank
WhiteEpSquareSet ==
    /\ plies > 0
    /\ prev.SideToMove = White
    /\ IsDoublePush(prev, last)
    /\ Rank(b.EpSquare) = 2
    /\ b.Piece[Square(File(b.EpSquare), 3)] = WP

\* C34: for every Board accepted by ParseFen (whatever en-passant square the
\* FEN names) and every legal move that does not capture, MakeMove leaves
\* the number of pieces of each colour unchanged and the moved piece (or its
\* promotion) stands on the destination square; in particular a pawn pushed
\* straight onto the FEN-supplied en-passant square is not removed from the
\* board.  (Castling, written as the king's move onto its own rook, is left
\* out: its destination squares are those of C5.)
NonCaptureKeepsPieces ==
    (plies > 0 /\ last /= NullMove /\ ~IsCapture(prev, last) /\ ~IsCastling(prev, last)) =>
        /\ \A color \in {White, Black} :
              Cardinality(PiecesOf(b, color)) = Cardinality(PiecesOf(prev, color))
        /\ b.Piece[last.To] = IF IsPromotionMove(prev, last) THEN last.Promotion
                              ELSE prev.Piece[last.From]

\* C35: insufficient material is absorbing: along any sequence of legal
\* moves, once HasInsufficientMaterial() is true for a position it is true
\* for every later position of that game.
InsufficientIsAbsorbing ==
    [][HasInsufficientMaterial(b) => HasInsufficientMaterial(b')]_vars

\* the material was sufficient at the start, a capture made it insufficient
\* and it is still insufficient after the next move
InsufficientIsAbsorbingWitness ==
    /\ plies = 2
    /\ ~HasInsufficientMaterial(start)
    /\ HasInsufficientMaterial(prev)
    /\ last /= NullMove
    /\ HasInsufficientMaterial(b)

\* two bishops on squares of one colour against two knights: insufficient
\* at the start and after a bishop's move and a capture
InsufficientKeptOverCapture ==
    /\ plies = 2
    /\ start = ParseFen(FenSameBishops).board
    /\ HasInsufficientMaterial(start)
    /\ last /= NullMove
    /\ Type(prev.Piece[last.From]) = Knight
    /\ prev.Piece[last.To] = WB
    /\ HasInsufficientMaterial(b)

-----------------------------------------------------------------------------
(* The terminal program                                                     *)

\* C36: in the game loop, game over is absorbing for move ticks: once
\* gameOver is true, a randomMoveMsg leaves the board, the move list,
\* lastMove and the checkmate and stalemate flags unchanged and schedules no
\* further tick; gameOver becomes false again only through Enter/Space (the
\* model is reset to the initial model) or a loaded game.
GameOverAbsorbsTicks ==
    [][/\ (model.gameOver /\ Tick) =>
              /\ model'.board = model.board
              /\ model'.moveList = model.moveList
              /\ model'.lastMove = model.lastMove
              /\ model'.checkmate = model.checkmate
              /\ model'.stalemate = model.stalemate
              /\ model'.gameOver
              /\ ticks' = ticks - 1
       /\ (model.gameOver /\ ~model'.gameOver) =>
              \/ model.state = stateMainGame /\ model' = initialModel
              \/ /\ model.state = stateChesscomDownloader
                 /\ model'.board \in LoadBoards
                 /\ model' = LoadGame(model, model'.board)]_vars

\* a game ended in checkmate while a tick was scheduled; its randomMoveMsg
\* has been handled since, the game is still over and no tick is scheduled
GameOverAbsorbsTicksWitness ==
    /\ model.state = stateMainGame
    /\ model.gameOver
    /\ model.checkmate
    /\ ~model.stalemate
    /\ handled.ignored
    /\ ticks = 0

\* a game that was over is on again: a new game after Enter, with no move
\* handled yet
GameRestarted ==
    /\ model = initialModel
    /\ handled.played > 0
    /\ ~handled.quit

\* C37: in the game loop at most one randomMoveMsg tick is outstanding at
\* any time, under any interleaving of "p" (pause and resume), Enter/Space
\* and tick deliveries, so auto-play never makes more than one move per
\* moveDelay period.
AtMostOneTick == ticks <= 1

\* C38: in the main game, whenever autoPlaying is true and gameOver is false
\* a randomMoveMsg tick is outstanding, so a move is eventually played; this
\* holds in particular after a finished game is restarted with Enter/Space
\* and after a downloaded game is loaded.
AutoPlayHasTick ==
    (/\ ~handled.quit
     /\ model.state = stateMainGame
     /\ model.autoPlaying
     /\ ~model.gameOver) => ticks > 0

\* a finished game was restarted with Enter: auto-play is on, the game is
\* not over and no tick is scheduled
RestartedWithoutTick ==
    /\ model = initialModel
    /\ handled.played > 0
    /\ ~handled.quit
    /\ ticks = 0

\* two ticks are scheduled while the game is on, and auto-play is on
TwoTicksScheduled ==
    /\ model.state = stateMainGame
    /\ ~model.gameOver
    /\ model.autoPlaying
    /\ ticks = 2

\* the game was ended after a move that brought Rule50 to 50, with legal
\* moves left and enough material
DrawAtFiftyHalfMoves ==
    /\ model.gameOver
    /\ model.stalemate
    /\ model.board.Rule50 = 50
    /\ LegalMoves(model.board) /= {}
    /\ ~HasInsufficientMaterial(model.board)

\* C39: the game loop ends a game as a draw by the fifty-move rule only when
\* the half-move counter Rule50 has reached 100 half-moves; a game with
\* Rule50 below 100 and no mate, stalemate or insufficient material goes on.
FiftyMoveDrawAtHundred ==
    model.gameOver =>
        \/ LegalMoves(model.board) = {}
        \/ HasInsufficientMaterial(model.board)
        \/ model.board.Rule50 >= 100

====
